---- MODULE Spec2Model ----
(***************************************************************************)
(* A model of api.py, the GameTrack backend: the in-memory TTL cache       *)
(* (cache_get / cache_set), the JSON API handlers with their try/except    *)
(* fallback to sample data, and the schedule classification of             *)
(* api_team_schedule.                                                      *)
(*                                                                         *)
(* Python values are tagged records: PyNone, PyList(<<...>>) and           *)
(* PyDict([k |-> v]); Truthy is Python's truth test on them.  Time is the  *)
(* value of time.time() in whole seconds.                                  *)
(*                                                                         *)
(* Specifications:                                                         *)
(*   SpecCache  any sequence of cache_get / cache_set calls and clock      *)
(*              ticks;                                                     *)
(*   Spec       requests to the API handlers, one at a time, against an    *)
(*              upstream whose outcome is chosen per request;              *)
(*   SpecLeaders  the two leaders endpoints, for every path segment of    *)
(*              StatInputs;                                                *)
(*   SpecSched  /api/team/<id>/schedule against league schedules built     *)
(*              game by game;                                              *)
(*   SpecConc   requests to /api/teams whose cache_get / cache_set steps   *)
(*              interleave (threaded server, unlocked cache);              *)
(*   SpecNorm   safe_records_from_df on tables, lists and None, and on its *)
(*              own output;                                                *)
(*   SpecBox    /api/game/<id>/boxscore against box score documents built  *)
(*              player by player.                                          *)
(***************************************************************************)
EXTENDS Integers, Sequences, FiniteSets, TLC

VARIABLES
    cache,              \* _CACHE: key -> [expiry, val]
    now,                \* time.time()
    NBA_API_AVAILABLE,  \* set once at import
    resp,               \* what the last operation returned
    lastSet,            \* history: key -> the last cache_set on it
    feed,               \* the league schedule document the CDN serves
    served,             \* the number of requests served so far
    threads             \* SpecConc: each request's position and locals

vars == <<cache, now, NBA_API_AVAILABLE, resp, lastSet, feed, served, threads>>

(***************************************************************************)
(* Bounds                                                                  *)
(***************************************************************************)
\* SpecCache: the clock runs 0..MaxTime, ttl ranges over 1..MaxTtl
MaxTime == 4
MaxTtl == 2
\* Spec: the number of requests served in one behaviour
MaxRequests == 2

(***************************************************************************)
(* Python values                                                           *)
(***************************************************************************)
PyNone == [t |-> "NoneType"]
PyList(s) == [t |-> "list", v |-> s]
PyDict(r) == [t |-> "dict", v |-> r]

\* bool(x): None, [] and {} are false
Truthy(x) ==
    CASE x.t = "NoneType" -> FALSE
      [] x.t = "list" -> Len(x.v) > 0
      [] x.t = "dict" -> DOMAIN x.v # {}
      [] OTHER -> TRUE

\* f restricted to the keys other than k (del d[k])
DictDel(f, k) == [x \in (DOMAIN f) \ {k} |-> f[x]]

\* d[k] = e
DictPut(f, k, e) == [x \in (DOMAIN f) \cup {k} |-> IF x = k THEN e ELSE f[x]]

(***************************************************************************)
(* The cache                                                               *)
(***************************************************************************)
\* a mutant of cache_get: an entry is dropped as soon as time reaches its expiry
cache_get_ge(c, key, t) ==
    IF key \notin DOMAIN c
    THEN [val |-> PyNone, cache |-> c]
    ELSE IF t >= c[key].expiry
         THEN [val |-> PyNone, cache |-> DictDel(c, key)]
         ELSE [val |-> c[key].val, cache |-> c]

\* a mutant of cache_get: a miss on an expired key sweeps every expired entry
cache_get_sweep(c, key, t) ==
    IF key \notin DOMAIN c
    THEN [val |-> PyNone, cache |-> c]
    ELSE IF t > c[key].expiry
         THEN [val |-> PyNone,
               cache |-> [x \in {y \in DOMAIN c : ~(t > c[y].expiry)} |-> c[x]]]
         ELSE [val |-> c[key].val, cache |-> c]

\* cache_get(key) at time t on cache c: the value returned and the cache left.
\* The stored entry is a 2-tuple, so `not v` is true only of a missing key.
cache_get(c, key, t) ==
    IF key \notin DOMAIN c
    THEN [val |-> PyNone, cache |-> c]
    ELSE IF t > c[key].expiry
         THEN [val |-> PyNone, cache |-> DictDel(c, key)]
         ELSE [val |-> c[key].val, cache |-> c]

\* a mutant of cache_set: the entry expires at the time it is stored
cache_set_ttl_dropped(c, key, val, ttl, t) ==
    DictPut(c, key, [expiry |-> t, val |-> val])

\* cache_set(key, val, ttl) at time t
cache_set(c, key, val, ttl, t) ==
    DictPut(c, key, [expiry |-> t + ttl, val |-> val])

(***************************************************************************)
(* SpecCache: cache_get and cache_set called in any order                  *)
(***************************************************************************)
CacheKeys == {"teams", "standings"}
CacheVals == {PyNone, PyList(<<>>), PyDict([games |-> PyList(<<>>)])}

NoThreads == << >>
NoFeed == PyNone

InitCache ==
    /\ cache = << >>
    /\ now = 0
    /\ NBA_API_AVAILABLE = TRUE
    /\ resp = [op |-> "start"]
    /\ lastSet = << >>
    /\ feed = NoFeed
    /\ served = 0
    /\ threads = NoThreads

\* time passes
Tick ==
    /\ now < MaxTime
    /\ now' = now + 1
    /\ UNCHANGED <<cache, NBA_API_AVAILABLE, resp, lastSet, feed, served, threads>>

CacheGet ==
    \E key \in CacheKeys :
        LET r == cache_get(cache, key, now) IN
        /\ cache' = r.cache
        /\ resp' = [op |-> "cache_get", key |-> key, at |-> now, val |-> r.val]
        /\ UNCHANGED <<now, NBA_API_AVAILABLE, lastSet, feed, served, threads>>

CacheSet ==
    \E key \in CacheKeys, val \in CacheVals, ttl \in 1..MaxTtl :
        /\ cache' = cache_set(cache, key, val, ttl, now)
        /\ lastSet' = DictPut(lastSet, key, [t0 |-> now, val |-> val, ttl |-> ttl])
        /\ resp' = [op |-> "cache_set", key |-> key, at |-> now, val |-> PyNone]
        /\ UNCHANGED <<now, NBA_API_AVAILABLE, feed, served, threads>>

NextCache == Tick \/ CacheGet \/ CacheSet

SpecCache == InitCache /\ [][NextCache]_vars

\* the last operation was a cache_get on a key that has been set
GotSetKey == resp.op = "cache_get" /\ resp.key \in DOMAIN lastSet

\* C2 (as stated): after cache_set(key, value, T) at t0, cache_get(key) returns
\* the value at every time t with t - t0 < T and None at every t with
\* t - t0 >= T, the instant t - t0 = T included.
C2_AsStated ==
    GotSetKey =>
        LET s == lastSet[resp.key] IN
        /\ (resp.at - s.t0 < s.ttl => resp.val = s.val)
        /\ (resp.at - s.t0 >= s.ttl => resp.val = PyNone)

\* C2 (amended): after cache_set(key, value, T) at t0, cache_get(key) returns
\* the value at every time t with t - t0 <= T (the instant of expiry included)
\* and None at every t with t - t0 > T.
C2_ValueUntilExpiryInclusive ==
    GotSetKey =>
        LET s == lastSet[resp.key] IN
        /\ (resp.at - s.t0 <= s.ttl => resp.val = s.val)
        /\ (resp.at - s.t0 > s.ttl => resp.val = PyNone)

\* a cache_get exactly at the expiry of an entry holding a value other than None
C2_Witness ==
    /\ GotSetKey
    /\ resp.at - lastSet[resp.key].t0 = lastSet[resp.key].ttl
    /\ lastSet[resp.key].val # PyNone
    /\ resp.val = lastSet[resp.key].val

\* C8: an entry leaves the cache only by a cache_get on its own key at a time
\* after its expiry; cache_get changes no other key's entry and removes no
\* unexpired entry; an entry changes only by a cache_set on its key, so an
\* expired entry stays stored until one of the two.
C8_ExpiryOnlyEviction ==
    [][\A k \in CacheKeys :
        /\ (k \in DOMAIN cache /\ k \notin DOMAIN cache') =>
              /\ resp'.op = "cache_get"
              /\ resp'.key = k
              /\ now > cache[k].expiry
        /\ (k \in DOMAIN cache /\ k \in DOMAIN cache' /\ cache'[k] # cache[k]) =>
              (resp'.op = "cache_set" /\ resp'.key = k)
        /\ (k \notin DOMAIN cache /\ k \in DOMAIN cache') =>
              (resp'.op = "cache_set" /\ resp'.key = k)
      ]_vars

\* a cache_get has evicted its own expired key while another key's expired
\* entry is still stored
C8_Witness ==
    /\ resp.op = "cache_get"
    /\ resp.key \in DOMAIN lastSet
    /\ resp.key \notin DOMAIN cache
    /\ \E k \in DOMAIN cache : k # resp.key /\ now > cache[k].expiry

(***************************************************************************)
(* Program constants                                                       *)
(***************************************************************************)
\* ttl of each cache_set in the handlers
TTL_TEAMS == 3600
TTL_STANDINGS == 30
TTL_SCOREBOARD == 15
TTL_LEADERS_HOME == 30
TTL_FULL_SCHEDULE == 3600

LAL_ID == 1610612747
GSW_ID == 1610612744
BOS_ID == 1610612738

\* f"https://cdn.nba.com/logos/nba/{tid}/global/L/logo.svg"
LogoUrl(tid) ==
    CASE tid = LAL_ID -> "https://cdn.nba.com/logos/nba/1610612747/global/L/logo.svg"
      [] tid = GSW_ID -> "https://cdn.nba.com/logos/nba/1610612744/global/L/logo.svg"
      [] tid = BOS_ID -> "https://cdn.nba.com/logos/nba/1610612738/global/L/logo.svg"
      [] OTHER -> "https://cdn.nba.com/logos/nba/{tid}/global/L/logo.svg"

STATIC_LOGO == "/static/logo.png"

(***************************************************************************)
(* The upstream: what one outbound call does                               *)
(***************************************************************************)
\* the call itself raises (requests.get, raise_for_status, res.json(), or the
\* provider library's endpoint constructor)
CallFailures == {"network_error", "timeout", "http_error", "malformed"}

\* "unexpected": the call returns a decoded payload whose shape the handler
\* does not expect, and the handler's processing raises on it
Outcomes == CallFailures \cup {"unexpected", "ok"}

\* a call into the provider library hides its HTTP request: it raises on a
\* timeout (timeout=30) or on a response it cannot decode
ProviderFailures == {"timeout", "malformed"}

ProviderOutcomes == ProviderFailures \cup {"unexpected", "ok"}

Raises(up) == up.outcome \in CallFailures

\* one outbound call of a request and whether it returned
Call(target, ok) == [target |-> target, ok |-> ok]

\* what a handler leaves: the HTTP response and the cache.
\* path: "cache" (the cached value returned as the response), "try" (the try
\* block returned), "except" (the except block returned), "reject" (input
\* validation); hit: cache_get gave the handler a value it used; calls: the
\* outbound calls made, in order
Out(status, body, path, calls, c) ==
    [status |-> status, body |-> body, path |-> path, calls |-> calls, cache |-> c,
     hit |-> (path = "cache")]

(***************************************************************************)
(* safe_records_from_df                                                    *)
(***************************************************************************)
\* A DataFrame is [t |-> "DataFrame", columns |-> <<[name, dtype]>>,
\* rows |-> << <<cell>> >>]; a cell is [k |-> "num", v |-> n], [k |-> "nan"],
\* [k |-> "inf"], [k |-> "-inf"], [k |-> "str", v |-> s], [k |-> "none"],
\* [k |-> "ts", v |-> n] or [k |-> "nat"].
Num(n) == [k |-> "num", v |-> n]
Str(x) == [k |-> "str", v |-> x]
NaN == [k |-> "nan"]

\* Series.fillna(x) on one cell: NaN, None and NaT are the missing values
FillNa(cell, x) == IF cell.k \in {"nan", "none", "nat"} THEN x ELSE cell

\* v.isoformat() if not pd.isna(v) else None
IsoOrNone(cell) ==
    IF cell.k \in {"nan", "none", "nat"} THEN [k |-> "none"]
    ELSE [k |-> "str", v |-> cell.v]

NormCell(col, cell) ==
    CASE col.dtype = "number" -> FillNa(cell, Num(0))
      [] col.dtype = "object" -> FillNa(cell, Str(""))
      [] col.dtype = "datetime" -> IsoOrNone(cell)
      [] OTHER -> cell

\* ~df.columns.duplicated(): the positions holding the first occurrence of a name
FirstOccurrences(columns) ==
    {i \in 1..Len(columns) : \A j \in 1..(i - 1) : columns[j].name # columns[i].name}

\* a mutant of safe_records_from_df: without the isinstance(df, list) branch a
\* list is answered like a payload without rows
safe_records_from_df_no_list(df) ==
    IF df = PyNone THEN << >>
    ELSE IF df.t = "list" THEN << >>
    ELSE IF Len(df.rows) = 0 THEN << >>
    ELSE [r \in 1..Len(df.rows) |->
            [n \in {df.columns[i].name : i \in FirstOccurrences(df.columns)} |->
                LET i == CHOOSE j \in FirstOccurrences(df.columns) :
                              df.columns[j].name = n
                IN NormCell(df.columns[i], df.rows[r][i])]]

\* df.to_dict(orient='records') after the fills and the de-duplication
safe_records_from_df(df) ==
    IF df = PyNone THEN << >>
    ELSE IF df.t = "list" THEN df.v
    ELSE IF Len(df.rows) = 0 THEN << >>
    ELSE [r \in 1..Len(df.rows) |->
            [n \in {df.columns[i].name : i \in FirstOccurrences(df.columns)} |->
                LET i == CHOOSE j \in FirstOccurrences(df.columns) :
                              df.columns[j].name = n
                IN NormCell(df.columns[i], df.rows[r][i])]]

(***************************************************************************)
(* /api/teams                                                              *)
(***************************************************************************)
SAMPLE_TEAMS ==
    PyList(<<
      [id |-> 1610612747, full_name |-> "Los Angeles Lakers",
       abbreviation |-> "LAL", logoUrl |-> "/static/logo.png"],
      [id |-> 1610612744, full_name |-> "Golden State Warriors",
       abbreviation |-> "GSW", logoUrl |-> "/static/logo.png"] >>)

\* r.get(k) for an id field: 0 stands for a missing or falsy id
IdOf(r, k) == IF k \in DOMAIN r THEN r[k] ELSE 0

\* t.get('id') or t.get('teamId') or t.get('TEAM_ID')
TeamIdOf(t) ==
    IF IdOf(t, "id") # 0 THEN IdOf(t, "id")
    ELSE IF IdOf(t, "teamId") # 0 THEN IdOf(t, "teamId")
    ELSE IdOf(t, "TEAM_ID")

\* the loop that gives every team its logoUrl
WithLogo(t) ==
    DictPut(t, "logoUrl", IF TeamIdOf(t) # 0 THEN LogoUrl(TeamIdOf(t)) ELSE STATIC_LOGO)

\* what teams_static.get_teams() may return
TeamLists ==
    { << >>,
      << [id |-> LAL_ID, full_name |-> "Los Angeles Lakers", abbreviation |-> "LAL"],
         [id |-> BOS_ID, full_name |-> "Boston Celtics", abbreviation |-> "BOS"] >>,
      << [teamId |-> GSW_ID, full_name |-> "Golden State Warriors", abbreviation |-> "GSW"],
         [full_name |-> "Seattle SuperSonics", abbreviation |-> "SEA"] >> }

\* teams_static.get_teams() reads the provider library's own table: it makes no
\* network call, so it returns a list or raises on its own
TeamsUpstream ==
    [outcome : {"unexpected"}, data : {PyNone}]
      \cup [outcome : {"ok"}, data : {PyList(l) : l \in TeamLists}]

\* a mutant of api_teams: the fallback list is chosen before the logo loop,
\* which then gives its teams the CDN logo
api_teams_logo_after_fallback(c, t, avail, up) ==
    LET g == cache_get(c, "teams", t) IN
    IF Truthy(g.val) THEN Out(200, g.val, "cache", << >>, g.cache)
    ELSE IF avail /\ up.outcome # "ok"
    THEN Out(200, SAMPLE_TEAMS, "except",
             << Call("teams_static.get_teams", ~Raises(up)) >>,
             cache_set(g.cache, "teams", SAMPLE_TEAMS, TTL_TEAMS, t))
    ELSE LET got == IF avail THEN up.data.v ELSE << >>
             all_teams == IF Len(got) = 0 THEN SAMPLE_TEAMS.v ELSE got
             body == PyList([i \in 1..Len(all_teams) |-> WithLogo(all_teams[i])])
             calls == IF avail THEN << Call("teams_static.get_teams", TRUE) >> ELSE << >>
         IN Out(200, body, "try", calls,
                cache_set(g.cache, "teams", body, TTL_TEAMS, t))

api_teams(c, t, avail, up) ==
    LET g == cache_get(c, "teams", t) IN
    IF Truthy(g.val) THEN Out(200, g.val, "cache", << >>, g.cache)
    ELSE IF avail /\ up.outcome # "ok"
    THEN Out(200, SAMPLE_TEAMS, "except",
             << Call("teams_static.get_teams", ~Raises(up)) >>,
             cache_set(g.cache, "teams", SAMPLE_TEAMS, TTL_TEAMS, t))
    ELSE LET got == IF avail THEN up.data.v ELSE << >>
             all_teams == [i \in 1..Len(got) |-> WithLogo(got[i])]
             body == IF Len(all_teams) = 0 THEN SAMPLE_TEAMS ELSE PyList(all_teams)
             calls == IF avail THEN << Call("teams_static.get_teams", TRUE) >> ELSE << >>
         IN Out(200, body, "try", calls,
                cache_set(g.cache, "teams", body, TTL_TEAMS, t))

(***************************************************************************)
(* /api/standings                                                          *)
(***************************************************************************)
SAMPLE_STANDINGS ==
    PyDict([
      east |-> PyList(<<
        [TeamName |-> "Boston Celtics", WINS |-> 50, LOSSES |-> 22, GamesBack |-> 0],
        [TeamName |-> "Milwaukee Bucks", WINS |-> 45, LOSSES |-> 27, GamesBack |-> 5] >>),
      west |-> PyList(<<
        [TeamName |-> "Phoenix Suns", WINS |-> 48, LOSSES |-> 24, GamesBack |-> 0],
        [TeamName |-> "Denver Nuggets", WINS |-> 44, LOSSES |-> 28, GamesBack |-> 4] >>)])

\* the rows of df whose Conference, lower-cased, is conf
ConferenceRows(df, conf) ==
    LET ci == CHOOSE i \in 1..Len(df.columns) : df.columns[i].name = "Conference"
        keep == {r \in 1..Len(df.rows) :
                    df.rows[r][ci].v \in (IF conf = "east" THEN {"East", "east", "EAST"}
                                          ELSE {"West", "west", "WEST"})}
        Pick[n \in 0..Len(df.rows)] ==
            IF n = 0 THEN << >>
            ELSE IF n \in keep THEN Append(Pick[n - 1], df.rows[n]) ELSE Pick[n - 1]
    IN [t |-> "DataFrame", columns |-> df.columns, rows |-> Pick[Len(df.rows)]]

STANDINGS_COLUMNS ==
    << [name |-> "TeamName", dtype |-> "object"],
       [name |-> "Conference", dtype |-> "object"],
       [name |-> "WINS", dtype |-> "number"],
       [name |-> "GamesBack", dtype |-> "number"] >>

\* what LeagueStandingsV3(...).get_data_frames()[0] may hold, columns renamed
StandingsFrames ==
    { [t |-> "DataFrame", columns |-> STANDINGS_COLUMNS,
       rows |-> << <<Str("Boston Celtics"), Str("East"), Num(3), NaN>>,
                   <<Str("Denver Nuggets"), Str("West"), Num(2), Num(1)>> >>] }

StandingsUpstream ==
    [outcome : ProviderOutcomes \ {"ok"}, data : {PyNone}]
      \cup [outcome : {"ok"}, data : StandingsFrames]

\* a mutant of api_standings: the except block returns the sample without
\* storing it
api_standings_sample_not_stored(c, t, avail, up) ==
    LET g == cache_get(c, "standings", t) IN
    IF Truthy(g.val) THEN Out(200, g.val, "cache", << >>, g.cache)
    ELSE IF avail /\ up.outcome = "ok"
    THEN LET out == PyDict([
                 east |-> PyList(safe_records_from_df(ConferenceRows(up.data, "east"))),
                 west |-> PyList(safe_records_from_df(ConferenceRows(up.data, "west")))])
         IN Out(200, out, "try", << Call("LeagueStandingsV3", TRUE) >>,
                cache_set(g.cache, "standings", out, TTL_STANDINGS, t))
    ELSE Out(200, SAMPLE_STANDINGS, "except",
             IF avail THEN << Call("LeagueStandingsV3", ~Raises(up)) >> ELSE << >>,
             g.cache)

api_standings(c, t, avail, up) ==
    LET g == cache_get(c, "standings", t) IN
    IF Truthy(g.val) THEN Out(200, g.val, "cache", << >>, g.cache)
    ELSE IF avail /\ up.outcome = "ok"
    THEN LET out == PyDict([
                 east |-> PyList(safe_records_from_df(ConferenceRows(up.data, "east"))),
                 west |-> PyList(safe_records_from_df(ConferenceRows(up.data, "west")))])
         IN Out(200, out, "try", << Call("LeagueStandingsV3", TRUE) >>,
                cache_set(g.cache, "standings", out, TTL_STANDINGS, t))
    ELSE Out(200, SAMPLE_STANDINGS, "except",
             IF avail THEN << Call("LeagueStandingsV3", ~Raises(up)) >> ELSE << >>,
             cache_set(g.cache, "standings", SAMPLE_STANDINGS, TTL_STANDINGS, t))

(***************************************************************************)
(* /api/games/scoreboard                                                   *)
(***************************************************************************)
\* A gameEt string is [fmt, at]: fmt "utc" is an ISO string ending in Z, "naive"
\* an ISO string with no offset, "loose" a string only strptime accepts,
\* "garbage" one that nothing parses, "empty" the empty string; at is the
\* instant it denotes.
GameEt(fmt, at) == [fmt |-> fmt, at |-> at]

\* home_team.get('teamCity') + " " + home_team.get('teamName')
FullName(team) ==
    CASE team.teamCity = "Los Angeles" /\ team.teamName = "Lakers" -> "Los Angeles Lakers"
      [] team.teamCity = "Golden State" /\ team.teamName = "Warriors" -> "Golden State Warriors"
      [] team.teamCity = "Boston" /\ team.teamName = "Celtics" -> "Boston Celtics"
      [] OTHER -> "{teamCity} {teamName}"

\* the sample of the except block; startTimeUTC is datetime.utcnow().isoformat()
SAMPLE_SCOREBOARD(t) ==
    PyDict([games |-> PyList(<<
      [gameId |-> "sample-1", gameStatus |-> "Final",
       homeTeamId |-> 1610612747, awayTeamId |-> 1610612750,
       homeTeam |-> "Los Angeles Lakers", awayTeam |-> "Golden State Warriors",
       homeAbbr |-> "LAL", awayAbbr |-> "GSW",
       homeLogo |-> "https://cdn.nba.com/logos/nba/1610612747/global/L/logo.svg",
       awayLogo |-> "https://cdn.nba.com/logos/nba/1610612744/global/L/logo.svg",
       homeScore |-> 112, awayScore |-> 108,
       startTimeUTC |-> GameEt("naive", t), arena |-> "Staples Center"] >>)])

CdnTeam(id, city, name, tri, score) ==
    [teamId |-> id, teamCity |-> city, teamName |-> name, teamTricode |-> tri, score |-> score]

LAL(score) == CdnTeam(LAL_ID, "Los Angeles", "Lakers", "LAL", score)
GSW(score) == CdnTeam(GSW_ID, "Golden State", "Warriors", "GSW", score)
BOS(score) == CdnTeam(BOS_ID, "Boston", "Celtics", "BOS", score)

\* one entry of the live scoreboard feed
ScoreboardGame ==
    [gameId |-> "0022500001", gameStatusText |-> "Final", homeTeam |-> LAL(101),
     awayTeam |-> BOS(99), gameEt |-> GameEt("utc", 1), arena |-> [name |-> "Crypto.com Arena"]]

\* the documents res.json() may return: a feed with one game, a feed with no
\* game, a document without the 'scoreboard' key
ScoreboardDocs ==
    { PyDict([scoreboard |-> PyDict([games |-> PyList(<<ScoreboardGame>>)])]),
      PyDict([scoreboard |-> PyDict([games |-> PyList(<< >>)])]),
      PyDict([meta |-> PyDict(<< >>)]) }

ScoreboardUpstream ==
    [outcome : Outcomes \ {"ok"}, data : {PyNone}]
      \cup [outcome : {"ok"}, data : ScoreboardDocs]

\* the dict appended to `unified` for one game
UnifiedGame(g) ==
    [gameId |-> g.gameId, gameStatus |-> g.gameStatusText,
     homeTeamId |-> g.homeTeam.teamId, awayTeamId |-> g.awayTeam.teamId,
     homeTeam |-> FullName(g.homeTeam), awayTeam |-> FullName(g.awayTeam),
     homeAbbr |-> g.homeTeam.teamTricode, awayAbbr |-> g.awayTeam.teamTricode,
     homeLogo |-> IF g.homeTeam.teamId # 0 THEN LogoUrl(g.homeTeam.teamId) ELSE STATIC_LOGO,
     awayLogo |-> IF g.awayTeam.teamId # 0 THEN LogoUrl(g.awayTeam.teamId) ELSE STATIC_LOGO,
     homeScore |-> g.homeTeam.score, awayScore |-> g.awayTeam.score,
     startTimeUTC |-> g.gameEt, arena |-> g.arena.name]

api_scoreboard(c, t, up) ==
    LET g == cache_get(c, "scoreboard", t) IN
    IF Truthy(g.val) THEN Out(200, g.val, "cache", << >>, g.cache)
    ELSE IF up.outcome = "ok"
    THEN LET data == IF "scoreboard" \in DOMAIN up.data.v
                     THEN up.data.v.scoreboard ELSE PyDict(<< >>)
             cdn_games == IF "games" \in DOMAIN data.v THEN data.v.games.v ELSE << >>
             out == PyDict([games |->
                        PyList([i \in 1..Len(cdn_games) |-> UnifiedGame(cdn_games[i])])])
         IN Out(200, out, "try", << Call("cdn:todaysScoreboard", TRUE) >>,
                cache_set(g.cache, "scoreboard", out, TTL_SCOREBOARD, t))
    ELSE Out(200, SAMPLE_SCOREBOARD(t), "except",
             << Call("cdn:todaysScoreboard", ~Raises(up)) >>,
             cache_set(g.cache, "scoreboard", SAMPLE_SCOREBOARD(t), TTL_SCOREBOARD, t))

(***************************************************************************)
(* /api/leaders/homepage and /api/leaders/<stat_category>                  *)
(***************************************************************************)
Float(x) == [k |-> "float", v |-> x]

SAMPLE_LEADERS_HOME ==
    PyDict([
      PTS |-> PyList(<<
        [PLAYER |-> Str("L. James"), TEAM |-> Str("LAL"), PTS |-> Float("30.1"), PERSON_ID |-> Num(2544)],
        [PLAYER |-> Str("S. Curry"), TEAM |-> Str("GSW"), PTS |-> Float("29.4"), PERSON_ID |-> Num(201939)] >>),
      REB |-> PyList(<<
        [PLAYER |-> Str("N. Jokic"), TEAM |-> Str("DEN"), REB |-> Float("11.2"), PERSON_ID |-> Num(203999)],
        [PLAYER |-> Str("G. Antetokounmpo"), TEAM |-> Str("MIL"), REB |-> Float("10.8"), PERSON_ID |-> Num(203507)] >>),
      AST |-> PyList(<<
        [PLAYER |-> Str("L. Doncic"), TEAM |-> Str("DAL"), AST |-> Float("9.8"), PERSON_ID |-> Num(1629029)],
        [PLAYER |-> Str("C. Paul"), TEAM |-> Str("PHX"), AST |-> Float("8.9"), PERSON_ID |-> Num(101108)] >>)])

SAMPLE_LEADERS_FULL ==
    PyList(<<
      [PLAYER |-> Str("L. James"), TEAM |-> Str("LAL"), PTS |-> Float("30.1"), PERSON_ID |-> Num(2544)],
      [PLAYER |-> Str("S. Curry"), TEAM |-> Str("GSW"), PTS |-> Float("29.4"), PERSON_ID |-> Num(201939)] >>)

\* the position of the column called name, 0 when there is none
ColumnIndex(df, name) ==
    IF \E i \in 1..Len(df.columns) : df.columns[i].name = name
    THEN CHOOSE i \in 1..Len(df.columns) :
             /\ df.columns[i].name = name
             /\ \A j \in 1..(i - 1) : df.columns[j].name # name
    ELSE 0

\* rows by descending value of column ci (the frames here hold no ties)
RECURSIVE SortDesc(_, _)
SortDesc(rows, ci) ==
    IF Len(rows) = 0 THEN << >>
    ELSE LET m == CHOOSE i \in 1..Len(rows) :
                      \A j \in 1..Len(rows) : rows[j][ci].v <= rows[i][ci].v
             rest == [j \in 1..(Len(rows) - 1) |-> IF j < m THEN rows[j] ELSE rows[j + 1]]
         IN << rows[m] >> \o SortDesc(rest, ci)

\* df.head(n)
HeadN(rows, n) == SubSeq(rows, 1, IF Len(rows) < n THEN Len(rows) ELSE n)

\* df.sort_values(by=col, ascending=False).head(n) if col in df.columns else df.head(n)
TopBy(df, col, n) ==
    [df EXCEPT !.rows = IF ColumnIndex(df, col) # 0
                        THEN HeadN(SortDesc(df.rows, ColumnIndex(df, col)), n)
                        ELSE HeadN(df.rows, n)]

\* pd.merge(df, teams_df, left_on='TEAM_ID', right_on='id', how='left'):
\* the columns id and abbreviation of the matching team, missing when none matches
MergeTeams(df, teams) ==
    LET ti == ColumnIndex(df, "TEAM_ID")
        Match(row) == {i \in 1..Len(teams) : IdOf(teams[i], "id") = row[ti].v}
        Team(row) == teams[CHOOSE i \in Match(row) : \A j \in Match(row) : i <= j]
    IN [t |-> "DataFrame",
        columns |-> df.columns \o << [name |-> "id", dtype |-> "number"],
                                     [name |-> "abbreviation", dtype |-> "object"] >>,
        rows |-> [r \in 1..Len(df.rows) |->
                    df.rows[r] \o (IF Match(df.rows[r]) = {}
                                   THEN << NaN, NaN >>
                                   ELSE << Num(Team(df.rows[r]).id),
                                           Str(Team(df.rows[r]).abbreviation) >>)]]

\* merging raises KeyError when no team dict carries an 'id'
MergeRaises(teams) == \A i \in 1..Len(teams) : "id" \notin DOMAIN teams[i]

LEADERS_COLUMNS ==
    << [name |-> "PLAYER_ID", dtype |-> "number"],
       [name |-> "PLAYER_NAME", dtype |-> "object"],
       [name |-> "TEAM_ID", dtype |-> "number"],
       [name |-> "PTS", dtype |-> "number"],
       [name |-> "REB", dtype |-> "number"],
       [name |-> "AST", dtype |-> "number"] >>

\* what LeagueDashPlayerStats(...).get_data_frames()[0] may hold
LeadersFrames ==
    { [t |-> "DataFrame", columns |-> LEADERS_COLUMNS,
       rows |-> << <<Num(2544), Str("LeBron James"), Num(LAL_ID), Num(25), Num(8), Num(7)>>,
                   <<Num(201939), Str("Stephen Curry"), Num(GSW_ID), Num(27), Num(5), Num(6)>>,
                   <<Num(1628369), Str("Jayson Tatum"), Num(BOS_ID), Num(26), Num(9), Num(4)>> >>] }

LeadersUpstream ==
    [outcome : ProviderOutcomes \ {"ok"}, data : {PyNone}]
      \cup [outcome : {"ok"}, data : LeadersFrames]

\* the second call is made only when the first returned
NoCall == [outcome |-> "none", data |-> PyNone]

LeadersCalls ==
    {<<up, NoCall>> : up \in {u \in LeadersUpstream : u.outcome # "ok"}}
      \cup ({u \in LeadersUpstream : u.outcome = "ok"} \X TeamsUpstream)

\* the comprehension building out[stat] from merged.to_dict(orient='records')
LeaderEntries(merged, stat) ==
    LET I(name) == ColumnIndex(merged, name) IN
    [r \in 1..Len(merged.rows) |->
        DictPut([PLAYER |-> merged.rows[r][I("PLAYER_NAME")],
                 TEAM |-> merged.rows[r][I("abbreviation")],
                 PERSON_ID |-> merged.rows[r][I("PLAYER_ID")]],
                stat, merged.rows[r][I(stat)])]

api_leaders_home(c, t, avail, up, up2) ==
    LET g == cache_get(c, "leaders_home", t)
        sample(calls) == Out(200, SAMPLE_LEADERS_HOME, "except", calls,
                             cache_set(g.cache, "leaders_home", SAMPLE_LEADERS_HOME,
                                       TTL_LEADERS_HOME, t))
        stats(ok) == Call("LeagueDashPlayerStats", ok)
        teams(ok) == Call("teams_static.get_teams", ok)
    IN
    IF Truthy(g.val) THEN Out(200, g.val, "cache", << >>, g.cache)
    ELSE IF ~avail THEN sample(<< >>)
    ELSE IF up.outcome # "ok" THEN sample(<< stats(~Raises(up)) >>)
    ELSE IF up2.outcome # "ok" THEN sample(<< stats(TRUE), teams(~Raises(up2)) >>)
    ELSE IF MergeRaises(up2.data.v) THEN sample(<< stats(TRUE), teams(TRUE) >>)
    ELSE LET Top(stat) == PyList(LeaderEntries(
                              MergeTeams(TopBy(up.data, stat, 5), up2.data.v), stat))
             out == PyDict([PTS |-> Top("PTS"), REB |-> Top("REB"), AST |-> Top("AST")])
         IN Out(200, out, "try", << stats(TRUE), teams(TRUE) >>,
                cache_set(g.cache, "leaders_home", out, TTL_LEADERS_HOME, t))

\* stat_category is a sequence of characters
LowerCase == <<"a","b","c","d","e","f","g","h","i","j","k","l","m",
               "n","o","p","q","r","s","t","u","v","w","x","y","z">>
UpperCase == <<"A","B","C","D","E","F","G","H","I","J","K","L","M",
               "N","O","P","Q","R","S","T","U","V","W","X","Y","Z">>

UpperChar(ch) ==
    IF \E i \in 1..26 : LowerCase[i] = ch
    THEN UpperCase[CHOOSE i \in 1..26 : LowerCase[i] = ch]
    ELSE ch

\* a mutant of Upper: the path segment is tested as it came
UpperSkipped(str) == str

\* str.upper()
Upper(str) == [i \in 1..Len(str) |-> UpperChar(str[i])]

\* the allow-list, each name with its characters
ALLOWED ==
    { [name |-> "PTS", chars |-> <<"P","T","S">>],
      [name |-> "AST", chars |-> <<"A","S","T">>],
      [name |-> "REB", chars |-> <<"R","E","B">>],
      [name |-> "BLK", chars |-> <<"B","L","K">>],
      [name |-> "STL", chars |-> <<"S","T","L">>],
      [name |-> "FGM", chars |-> <<"F","G","M">>],
      [name |-> "FGA", chars |-> <<"F","G","A">>],
      [name |-> "FG3M", chars |-> <<"F","G","3","M">>],
      [name |-> "FG3A", chars |-> <<"F","G","3","A">>],
      [name |-> "FTM", chars |-> <<"F","T","M">>],
      [name |-> "FTA", chars |-> <<"F","T","A">>],
      [name |-> "FG_PCT", chars |-> <<"F","G","_","P","C","T">>],
      [name |-> "FG3_PCT", chars |-> <<"F","G","3","_","P","C","T">>],
      [name |-> "FT_PCT", chars |-> <<"F","T","_","P","C","T">>] }

\* stat in allowed
Allowed(stat) == \E a \in ALLOWED : a.chars = stat

StatName(stat) == (CHOOSE a \in ALLOWED : a.chars = stat).name

\* the path segments requested: every allowed name in upper case, some in
\* lower and mixed case, and strings outside the allow-list
StatInputs ==
    {a.chars : a \in ALLOWED}
      \cup { <<"p","t","s">>, <<"P","t","s">>, <<"f","g","3","_","p","c","t">>,
             <<"f","t","A">>, <<"P","T">>, <<"P","T","S","S">>, <<"x","y","z">>,
             <<"p","o","i","n","t","s">>, <<"F","G","-","P","C","T">>, <<"3">> }

\* the path segments requested in Spec
StatInputsCore == { <<"P","T","S">>, <<"f","g","3","_","p","c","t">>, <<"x","y","z">> }

api_leaders_full(c, avail, stat_category, up, up2) ==
    LET stat == Upper(stat_category)
        sample(calls) == Out(200, SAMPLE_LEADERS_FULL, "except", calls, c)
        stats(ok) == Call("LeagueDashPlayerStats", ok)
        teams(ok) == Call("teams_static.get_teams", ok)
    IN
    IF ~Allowed(stat)
    THEN Out(400, PyDict([error |-> "invalid stat"]), "reject", << >>, c)
    ELSE IF ~avail THEN sample(<< >>)
    ELSE IF up.outcome # "ok" THEN sample(<< stats(~Raises(up)) >>)
    ELSE IF up2.outcome # "ok" THEN sample(<< stats(TRUE), teams(~Raises(up2)) >>)
    ELSE IF Len(up2.data.v) > 0 /\ MergeRaises(up2.data.v)
    THEN sample(<< stats(TRUE), teams(TRUE) >>)
    ELSE LET df_sorted == TopBy(up.data, StatName(stat), 25)
             merged == IF Len(up2.data.v) > 0 THEN MergeTeams(df_sorted, up2.data.v)
                       ELSE df_sorted
         IN Out(200, PyList(safe_records_from_df(merged)), "try",
                << stats(TRUE), teams(TRUE) >>, c)

(***************************************************************************)
(* /api/team/<id>/roster, /api/player/<id>/profile, /api/player/<id>/gamelog *)
(***************************************************************************)
SAMPLE_ROSTER ==
    PyList(<<
      [PLAYER_ID |-> Num(201939), PLAYER |-> Str("Stephen Curry"), NUM |-> Str("30"),
       POSITION |-> Str("G"), AGE |-> Num(36), HEIGHT |-> Str("6-2"),
       WEIGHT |-> Str("185"), SCHOOL |-> Str("Davidson")],
      [PLAYER_ID |-> Num(2544), PLAYER |-> Str("LeBron James"), NUM |-> Str("23"),
       POSITION |-> Str("F"), AGE |-> Num(39), HEIGHT |-> Str("6-9"),
       WEIGHT |-> Str("250"), SCHOOL |-> Str("St. Vincent-St. Mary")] >>)

SAMPLE_PROFILE(player_id) ==
    PyDict([info |-> PyList(<<
      [PERSON_ID |-> Num(player_id), DISPLAY_FIRST_LAST |-> Str("Sample Player"),
       TEAM_NAME |-> Str("Sample Team"), JERSEY |-> Str("0"), POSITION |-> Str("G"),
       HEIGHT |-> Str("6-5"), WEIGHT |-> Str("200"), AGE |-> Num(25),
       PTS |-> Float("20.1"), REB |-> Float("5.2"), AST |-> Float("6.3")] >>)])

SAMPLE_GAMELOG ==
    PyList(<<
      [GAME_DATE |-> Str("2025-11-01"), MATCHUP |-> Str("LAL vs GSW"), PTS |-> Num(28),
       REB |-> Num(6), AST |-> Num(7), MIN |-> Str("35:00")],
      [GAME_DATE |-> Str("2025-10-29"), MATCHUP |-> Str("LAL @ BOS"), PTS |-> Num(14),
       REB |-> Num(4), AST |-> Num(3), MIN |-> Str("28:12")] >>)

TeamIds == {LAL_ID, GSW_ID, BOS_ID}
PlayerIds == {2544, 201939}

\* what CommonTeamRoster(...).get_data_frames()[0] may hold
RosterFrames ==
    { [t |-> "DataFrame",
       columns |-> << [name |-> "PLAYER_ID", dtype |-> "number"],
                      [name |-> "PLAYER", dtype |-> "object"],
                      [name |-> "SCHOOL", dtype |-> "object"] >>,
       rows |-> << <<Num(2544), Str("LeBron James"), [k |-> "none"]>> >>] }

RosterUpstream ==
    [outcome : ProviderOutcomes \ {"ok"}, data : {PyNone}]
      \cup [outcome : {"ok"}, data : RosterFrames]

\* a mutant of api_team_roster: a failed roster call is attempted once more
api_team_roster_retry(c, avail, team_id, up) ==
    IF avail /\ up.outcome = "ok"
    THEN Out(200, PyList(safe_records_from_df(up.data)), "try",
             << Call("CommonTeamRoster", TRUE) >>, c)
    ELSE Out(200, SAMPLE_ROSTER, "except",
             IF avail THEN << Call("CommonTeamRoster", ~Raises(up)),
                              Call("CommonTeamRoster", ~Raises(up)) >> ELSE << >>, c)

api_team_roster(c, avail, team_id, up) ==
    IF avail /\ up.outcome = "ok"
    THEN Out(200, PyList(safe_records_from_df(up.data)), "try",
             << Call("CommonTeamRoster", TRUE) >>, c)
    ELSE Out(200, SAMPLE_ROSTER, "except",
             IF avail THEN << Call("CommonTeamRoster", ~Raises(up)) >> ELSE << >>, c)

PROFILE_INFO ==
    [t |-> "DataFrame",
     columns |-> << [name |-> "PERSON_ID", dtype |-> "number"],
                    [name |-> "DISPLAY_FIRST_LAST", dtype |-> "object"] >>,
     rows |-> << <<Num(2544), Str("LeBron James")>> >>]

PROFILE_STATS ==
    [t |-> "DataFrame",
     columns |-> << [name |-> "PTS", dtype |-> "number"],
                    [name |-> "REB", dtype |-> "number"],
                    [name |-> "AST", dtype |-> "number"] >>,
     rows |-> << <<Num(25), Num(8), NaN>> >>]

\* what CommonPlayerInfo(...).get_data_frames() may return: no frame, the
\* info frame alone, the info frame and the headline stats
ProfileFrameLists ==
    { << >>, << PROFILE_INFO >>, << PROFILE_INFO, PROFILE_STATS >>,
      << PROFILE_INFO, [PROFILE_STATS EXCEPT !.rows = << >>] >> }

ProfileUpstream ==
    [outcome : ProviderOutcomes \ {"ok"}, data : {PyNone}]
      \cup [outcome : {"ok"}, data : {PyList(l) : l \in ProfileFrameLists}]

\* the accolades handler reads the first frame only
AccoladesUpstream == {up \in ProfileUpstream : up.outcome # "ok" \/ Len(up.data.v) <= 1}

\* df_info[col] = stats_row.get(col) for PTS, REB and AST
WithHeadline(df_info, df_stats) ==
    [t |-> "DataFrame",
     columns |-> df_info.columns \o << [name |-> "PTS", dtype |-> "number"],
                                       [name |-> "REB", dtype |-> "number"],
                                       [name |-> "AST", dtype |-> "number"] >>,
     rows |-> [r \in 1..Len(df_info.rows) |->
                 df_info.rows[r] \o
                 << df_stats.rows[1][ColumnIndex(df_stats, "PTS")],
                    df_stats.rows[1][ColumnIndex(df_stats, "REB")],
                    df_stats.rows[1][ColumnIndex(df_stats, "AST")] >>]]

api_player_profile(c, avail, player_id, up) ==
    LET sample(calls) == Out(200, SAMPLE_PROFILE(player_id), "except", calls, c)
        info(ok) == Call("CommonPlayerInfo", ok)
    IN
    IF ~avail THEN sample(<< >>)
    ELSE IF up.outcome # "ok" THEN sample(<< info(~Raises(up)) >>)
    ELSE IF Len(up.data.v) = 0 THEN sample(<< info(TRUE) >>)
    ELSE LET frames == up.data.v
             df_info == IF Len(frames) > 1 /\ Len(frames[2].rows) > 0
                        THEN WithHeadline(frames[1], frames[2])
                        ELSE frames[1]
         IN Out(200, PyDict([info |-> PyList(safe_records_from_df(df_info))]), "try",
                << info(TRUE) >>, c)

\* what PlayerGameLog(...).get_data_frames()[0] may hold
GamelogFrames ==
    { [t |-> "DataFrame",
       columns |-> << [name |-> "GAME_DATE", dtype |-> "object"],
                      [name |-> "PTS", dtype |-> "number"] >>,
       rows |-> << <<Str("2025-11-01"), Num(28)>>, <<Str("2025-10-29"), NaN>> >>],
      [t |-> "DataFrame",
       columns |-> << [name |-> "GAME_DATE", dtype |-> "object"],
                      [name |-> "PTS", dtype |-> "number"] >>,
       rows |-> << >>] }

GamelogUpstream ==
    [outcome : ProviderOutcomes \ {"ok"}, data : {PyNone}]
      \cup [outcome : {"ok"}, data : GamelogFrames]

api_player_gamelog(c, avail, player_id, up) ==
    IF avail /\ up.outcome = "ok"
    THEN Out(200, PyList(safe_records_from_df(up.data)), "try",
             << Call("PlayerGameLog", TRUE) >>, c)
    ELSE Out(200, SAMPLE_GAMELOG, "except",
             IF avail THEN << Call("PlayerGameLog", ~Raises(up)) >> ELSE << >>, c)

(***************************************************************************)
(* /api/player/<id>/accolades                                              *)
(***************************************************************************)
\* what load_accolades() may return: {} (no file, or a file that fails to
\* load), a file keyed by player id, a file keyed by player name
AccoladeFiles ==
    { [byId |-> {}, byName |-> {}],
      [byId |-> {2544}, byName |-> {}],
      [byId |-> {}, byName |-> {"LeBron James"}] }

ACCOLADES == PyList(<< Str("4x NBA Champion") >>)

api_player_accolades(c, avail, player_id, accolades, up) ==
    LET none(calls, path) == Out(200, PyDict([accolades |-> PyList(<< >>)]), path, calls, c)
        info(ok) == Call("CommonPlayerInfo", ok)
    IN
    IF player_id \in accolades.byId
    THEN Out(200, PyDict([accolades |-> ACCOLADES]), "try", << >>, c)
    ELSE IF ~avail THEN none(<< >>, "try")
    ELSE IF up.outcome # "ok" \/ Len(up.data.v) = 0
    THEN none(<< info(~Raises(up)) >>, "except")
    ELSE LET p == up.data.v[1]
             ni == ColumnIndex(p, "DISPLAY_FIRST_LAST")
         IN IF ni # 0 /\ p.rows[1][ni].v \in accolades.byName
            THEN Out(200, PyDict([accolades |-> ACCOLADES]), "try", << info(TRUE) >>, c)
            ELSE none(<< info(TRUE) >>, "try")

(***************************************************************************)
(* /api/team/<id>/schedule                                                 *)
(***************************************************************************)
\* the sample's GAME_DATETIME literals, written yyyymmddHH
SAMPLE_SCHEDULE ==
    PyDict([
      upcoming |-> PyList(<<
        [GAME_ID |-> "1001", GAME_DATETIME |-> Str(GameEt("naive", 2025041019)),
         MATCHUP |-> [away |-> "LAL", sep |-> "vs", home |-> "GSW"],
         WL |-> [k |-> "none"]] >>),
      recent |-> PyList(<<
        [GAME_ID |-> "999", GAME_DATETIME |-> Str(GameEt("naive", 2025040819)),
         MATCHUP |-> [away |-> "LAL", sep |-> "@", home |-> "BOS"],
         WL |-> Str("L"), PTS |-> 100, OPP_PTS |-> 110] >>)])

\* a league schedule document: gameDates is a sequence of dates, each a
\* sequence of games
ScheduleDoc(gameDates) ==
    PyDict([leagueSchedule |-> [gameDates |-> gameDates]])

\* one game of the schedule feed; et is a gameEt string or PyNone for a game
\* without the key
SchedGame(id, et, status, home, away) ==
    [gameId |-> id, gameEt |-> et, gameStatusText |-> status,
     gameDateEst |-> "2025-11-14T00:00:00Z", homeTeam |-> home, awayTeam |-> away]

DateTime(at, aware) == [t |-> "datetime", at |-> at, aware |-> aware]

\* datetime.min.replace(tzinfo=timezone.utc): before every instant
DATETIME_MIN == DateTime(-1, TRUE)

\* get_game_time: None for a missing or empty string; fromisoformat gives an
\* aware datetime for a Z string and a naive one for a string without offset;
\* strptime with tzinfo=utc parses what fromisoformat rejects; else None
get_game_time(g) ==
    IF g.gameEt = PyNone THEN PyNone
    ELSE CASE g.gameEt.fmt = "empty" -> PyNone
           [] g.gameEt.fmt = "utc" -> DateTime(g.gameEt.at, TRUE)
           [] g.gameEt.fmt = "naive" -> DateTime(g.gameEt.at, FALSE)
           [] g.gameEt.fmt = "loose" -> DateTime(g.gameEt.at, TRUE)
           [] OTHER -> PyNone

\* get_game_time(g) or datetime.min.replace(tzinfo=timezone.utc)
SortKey(g) == IF get_game_time(g) = PyNone THEN DATETIME_MIN ELSE get_game_time(g)

\* the games of the feed in document order
RECURSIVE AllGames(_)
AllGames(gameDates) ==
    IF Len(gameDates) = 0 THEN << >>
    ELSE Head(gameDates) \o AllGames(Tail(gameDates))

\* list.sort(key=...) is stable: g goes after every game whose key is not later
RECURSIVE InsertByTime(_, _)
InsertByTime(sorted, g) ==
    IF Len(sorted) = 0 THEN << g >>
    ELSE IF SortKey(sorted[Len(sorted)]).at <= SortKey(g).at
         THEN Append(sorted, g)
         ELSE Append(InsertByTime(SubSeq(sorted, 1, Len(sorted) - 1), g),
                     sorted[Len(sorted)])

RECURSIVE SortByTime(_)
SortByTime(games) ==
    IF Len(games) = 0 THEN << >>
    ELSE InsertByTime(SortByTime(SubSeq(games, 1, Len(games) - 1)), games[Len(games)])

\* comparing a naive datetime with an aware one raises TypeError: in the sort
\* when the keys are mixed, else in `game_time > today`
NaiveTime(g) == get_game_time(g) # PyNone /\ ~get_game_time(g).aware

\* a mutant of IsUpcoming: every game that is not Final counts as upcoming
IsUpcomingNotFinal(g, today) == g.gameStatusText # "Final"

\* the branches of the classification loop
IsUpcoming(g, today) ==
    \/ /\ get_game_time(g) # PyNone
       /\ get_game_time(g).at > today
       /\ g.gameStatusText # "Final"
    \/ /\ ~(get_game_time(g) # PyNone /\ get_game_time(g).at > today
            /\ g.gameStatusText # "Final")
       /\ g.gameStatusText # "Final"
       /\ get_game_time(g) = PyNone

\* a mutant of IsRecent: a Final game counts as recent only once its time has come
IsRecentByTime(g, today) ==
    /\ g.gameStatusText = "Final"
    /\ get_game_time(g) # PyNone
    /\ get_game_time(g).at <= today

IsRecent(g, today) ==
    /\ ~(get_game_time(g) # PyNone /\ get_game_time(g).at > today
         /\ g.gameStatusText # "Final")
    /\ g.gameStatusText = "Final"

\* a mutant of format_game: the home team's score is taken as the requested
\* team's score
format_game_home_score(g, is_recent, team_id) ==
    LET game_data ==
            [GAME_ID |-> g.gameId,
             GAME_DATETIME |-> IF get_game_time(g) # PyNone
                               THEN Str(GameEt("iso+00:00", get_game_time(g).at))
                               ELSE [k |-> "none"],
             GAME_DATE_STR |-> g.gameDateEst,
             MATCHUP |-> [away |-> g.awayTeam.teamTricode, sep |-> "@",
                          home |-> g.homeTeam.teamTricode],
             WL |-> [k |-> "none"]]
    IN IF is_recent
       THEN DictPut(DictPut([game_data EXCEPT
                                !.WL = IF g.homeTeam.score > g.awayTeam.score
                                       THEN Str("W") ELSE Str("L")],
                            "PTS", g.homeTeam.score),
                    "OPP_PTS", g.awayTeam.score)
       ELSE game_data

\* format_game
format_game(g, is_recent, team_id) ==
    LET home == g.homeTeam
        away == g.awayTeam
        game_time_obj == get_game_time(g)
        game_data ==
            [GAME_ID |-> g.gameId,
             GAME_DATETIME |-> IF game_time_obj # PyNone
                               THEN Str(GameEt("iso+00:00", game_time_obj.at))
                               ELSE [k |-> "none"],
             GAME_DATE_STR |-> g.gameDateEst,
             MATCHUP |-> [away |-> away.teamTricode, sep |-> "@", home |-> home.teamTricode],
             WL |-> [k |-> "none"]]
        team_score == IF home.teamId = team_id THEN home.score ELSE away.score
        opp_score == IF home.teamId = team_id THEN away.score ELSE home.score
    IN IF is_recent
       THEN DictPut(DictPut([game_data EXCEPT
                                !.WL = IF team_score > opp_score THEN Str("W") ELSE Str("L")],
                            "PTS", team_score),
                    "OPP_PTS", opp_score)
       ELSE game_data

\* a mutant of LastFiveReversed: recent_games_raw[-5:] without the reverse()
LastFiveInOrder(raw) ==
    LET n == IF Len(raw) < 5 THEN Len(raw) ELSE 5
    IN [i \in 1..n |-> raw[Len(raw) - n + i]]

\* recent_games_raw[-5:], reversed
LastFiveReversed(raw) ==
    LET n == IF Len(raw) < 5 THEN Len(raw) ELSE 5
    IN [i \in 1..n |-> raw[Len(raw) + 1 - i]]

\* the games of team_id, sorted by time
TeamGames(cdn_schedule, team_id) ==
    LET Mine(g) == g.homeTeam.teamId = team_id \/ g.awayTeam.teamId = team_id
    IN SortByTime(SelectSeq(AllGames(cdn_schedule.v.leagueSchedule.gameDates), Mine))

upcoming_games_raw(cdn_schedule, team_id, today) ==
    LET Up(g) == IsUpcoming(g, today)
    IN SelectSeq(TeamGames(cdn_schedule, team_id), Up)

recent_games_raw(cdn_schedule, team_id, today) ==
    LET Rec(g) == IsRecent(g, today)
    IN SelectSeq(TeamGames(cdn_schedule, team_id), Rec)

\* the body the try block returns for a league schedule it can process
ScheduleBody(cdn_schedule, team_id, today) ==
    LET rec == LastFiveReversed(recent_games_raw(cdn_schedule, team_id, today))
        up == HeadN(upcoming_games_raw(cdn_schedule, team_id, today), 5)
    IN PyDict([upcoming |-> PyList([i \in 1..Len(up) |-> format_game(up[i], FALSE, team_id)]),
               recent |-> PyList([i \in 1..Len(rec) |-> format_game(rec[i], TRUE, team_id)])])

\* processing raises: the document is no dict (.get fails), or a game of the
\* team has a naive time
ScheduleRaises(cdn_schedule, team_id) ==
    \/ cdn_schedule.t # "dict"
    \/ /\ "leagueSchedule" \in DOMAIN cdn_schedule.v
       /\ LET team_games == TeamGames(cdn_schedule, team_id)
          IN \E i \in 1..Len(team_games) : NaiveTime(team_games[i])

\* a mutant of api_team_schedule: what is stored under 'full_schedule_v2' is
\* the schedule of the requested team only
api_team_schedule_team_entry(c, t, team_id, up) ==
    LET g == cache_get(c, "full_schedule_v2", t)
        fetch == ~Truthy(g.val)
        calls == IF fetch THEN << Call("cdn:scheduleLeagueV2_1", ~Raises(up)) >> ELSE << >>
        Mine(x) == x.homeTeam.teamId = team_id \/ x.awayTeam.teamId = team_id
        cdn_schedule ==
            IF ~fetch THEN g.val
            ELSE IF up.data.t = "dict" /\ "leagueSchedule" \in DOMAIN up.data.v
            THEN ScheduleDoc(<< SelectSeq(AllGames(up.data.v.leagueSchedule.gameDates), Mine) >>)
            ELSE up.data
        c1 == IF fetch
              THEN cache_set(g.cache, "full_schedule_v2", cdn_schedule, TTL_FULL_SCHEDULE, t)
              ELSE g.cache
    IN
    IF fetch /\ Raises(up)
    THEN Out(200, SAMPLE_SCHEDULE, "except", calls, g.cache)
    ELSE IF ScheduleRaises(cdn_schedule, team_id)
    THEN [Out(200, SAMPLE_SCHEDULE, "except", calls, c1) EXCEPT !.hit = ~fetch]
    ELSE IF \/ "leagueSchedule" \notin DOMAIN cdn_schedule.v
            \/ Len(TeamGames(cdn_schedule, team_id)) = 0
    THEN [Out(200, PyDict([upcoming |-> PyList(<< >>), recent |-> PyList(<< >>)]),
              "try", calls, c1) EXCEPT !.hit = ~fetch]
    ELSE [Out(200, ScheduleBody(cdn_schedule, team_id, t), "try", calls, c1)
             EXCEPT !.hit = ~fetch]

api_team_schedule(c, t, team_id, up) ==
    LET g == cache_get(c, "full_schedule_v2", t)
        fetch == ~Truthy(g.val)
        calls == IF fetch THEN << Call("cdn:scheduleLeagueV2_1", ~Raises(up)) >> ELSE << >>
        cdn_schedule == IF fetch THEN up.data ELSE g.val
        c1 == IF fetch
              THEN cache_set(g.cache, "full_schedule_v2", cdn_schedule, TTL_FULL_SCHEDULE, t)
              ELSE g.cache
    IN
    IF fetch /\ Raises(up)
    THEN Out(200, SAMPLE_SCHEDULE, "except", calls, g.cache)
    ELSE IF ScheduleRaises(cdn_schedule, team_id)
    THEN [Out(200, SAMPLE_SCHEDULE, "except", calls, c1) EXCEPT !.hit = ~fetch]
    ELSE IF \/ "leagueSchedule" \notin DOMAIN cdn_schedule.v
            \/ Len(TeamGames(cdn_schedule, team_id)) = 0
    THEN [Out(200, PyDict([upcoming |-> PyList(<< >>), recent |-> PyList(<< >>)]),
              "try", calls, c1) EXCEPT !.hit = ~fetch]
    ELSE [Out(200, ScheduleBody(cdn_schedule, team_id, t), "try", calls, c1)
             EXCEPT !.hit = ~fetch]

(***************************************************************************)
(* /api/game/<id>/boxscore                                                 *)
(***************************************************************************)
TEAM_STAT_FIELDS ==
    {"points", "reboundsTotal", "assists", "steals", "blocks", "fieldGoalsMade",
     "fieldGoalsAttempted", "threePointersMade", "threePointersAttempted",
     "freeThrowsMade", "freeThrowsAttempted", "turnovers"}

PLAYER_STAT_FIELDS == TEAM_STAT_FIELDS \cup {"plusMinusPoints"}

\* a record and a dict literal's further keys
Merge(f, g) == [x \in (DOMAIN f) \cup (DOMAIN g) |-> IF x \in DOMAIN f THEN f[x] ELSE g[x]]

SAMPLE_BOXSCORE ==
    PyDict([
      playerStats |-> PyList(<<
        [personId |-> 201939, playerName |-> "Stephen Curry", teamTricode |-> "GSW",
         minutes |-> "36:12", points |-> 34, reboundsTotal |-> 5, assists |-> 8,
         steals |-> 2, blocks |-> 0, fieldGoalsMade |-> 12, fieldGoalsAttempted |-> 23,
         threePointersMade |-> 7, threePointersAttempted |-> 13, freeThrowsMade |-> 3,
         freeThrowsAttempted |-> 3, turnovers |-> 2, plusMinusPoints |-> 10,
         playerImageUrl |-> "https://cdn.nba.com/headshots/nba/latest/1040x760/201939.png"] >>),
      teamStats |-> PyList(<<
        [teamTricode |-> "GSW", teamName |-> "Golden State Warriors", points |-> 108,
         reboundsTotal |-> 44, assists |-> 25, steals |-> 6, blocks |-> 4,
         fieldGoalsMade |-> 39, fieldGoalsAttempted |-> 92, threePointersMade |-> 14,
         threePointersAttempted |-> 39, freeThrowsMade |-> 16, freeThrowsAttempted |-> 21,
         turnovers |-> 12],
        [teamTricode |-> "LAL", teamName |-> "Los Angeles Lakers", points |-> 112,
         reboundsTotal |-> 48, assists |-> 22, steals |-> 5, blocks |-> 6,
         fieldGoalsMade |-> 41, fieldGoalsAttempted |-> 90, threePointersMade |-> 10,
         threePointersAttempted |-> 30, freeThrowsMade |-> 20, freeThrowsAttempted |-> 26,
         turnovers |-> 14] >>)])

\* the minutes formatting of _format_cdn_player: 'PT' in the string and the
\* regex PT(\d+)M(\d+).S at its start give MM:SS, anything else '00:00'
FormatMinutes(minutes_str) ==
    CASE minutes_str = "PT36M12.00S" -> "36:12"
      [] minutes_str = "PT05M03.50S" -> "05:03"
      [] minutes_str = "PT7M" -> "07:00"
      [] minutes_str = "PT00M00.00S" -> "00:00"
      [] OTHER -> "00:00"

\* f".../headshots/nba/latest/1040x760/{personId}.png"
HeadshotUrl(personId) ==
    CASE personId = 2544 -> "https://cdn.nba.com/headshots/nba/latest/1040x760/2544.png"
      [] personId = 201939 -> "https://cdn.nba.com/headshots/nba/latest/1040x760/201939.png"
      [] OTHER -> "https://cdn.nba.com/headshots/nba/latest/1040x760/{personId}.png"

\* stats.get(field): 0 stands for None
StatOf(stats, field) == IF field \in DOMAIN stats THEN stats[field] ELSE 0

_format_cdn_player(p, team_tricode) ==
    Merge([personId |-> p.personId, playerName |-> p.name, teamTricode |-> team_tricode,
           minutes |-> FormatMinutes(p.statistics.minutes),
           playerImageUrl |-> HeadshotUrl(p.personId)],
          [f \in PLAYER_STAT_FIELDS |-> StatOf(p.statistics, f)])

_format_cdn_team(tm) ==
    Merge([teamTricode |-> tm.teamTricode, teamName |-> tm.teamName],
          [f \in TEAM_STAT_FIELDS |-> StatOf(tm.statistics, f)])

\* a mutant of Played: the filter looks at the minutes as _format_cdn_player
\* formats them
PlayedFormatted(p) ==
    /\ p.status = "ACTIVE"
    /\ "minutes" \in DOMAIN p.statistics
    /\ p.statistics.minutes # ""
    /\ FormatMinutes(p.statistics.minutes) # "00:00"

\* the players who actually played
Played(p) ==
    /\ p.status = "ACTIVE"
    /\ "minutes" \in DOMAIN p.statistics
    /\ p.statistics.minutes # ""
    /\ p.statistics.minutes # "00:00"

CdnPlayer(id, name, status, minutes, points) ==
    [personId |-> id, name |-> name, status |-> status,
     statistics |-> [minutes |-> minutes, points |-> points, assists |-> 3]]

\* a box score team: statistics is << >> for a team without a statistics object
BoxTeam(tri, name, statistics, players) ==
    [teamTricode |-> tri, teamName |-> name, statistics |-> statistics, players |-> players]

BOX_HOME ==
    BoxTeam("LAL", "Lakers", [points |-> 112, assists |-> 22],
            << CdnPlayer(2544, "LeBron James", "ACTIVE", "PT36M12.00S", 30),
               CdnPlayer(1629029, "Luka Doncic", "INACTIVE", "", 0) >>)

BOX_AWAY ==
    BoxTeam("GSW", "Warriors", [points |-> 108, assists |-> 25],
            << CdnPlayer(201939, "Stephen Curry", "ACTIVE", "PT05M03.50S", 34),
               CdnPlayer(203110, "Draymond Green", "ACTIVE", "PT00M00.00S", 0),
               CdnPlayer(1626172, "Kevon Looney", "ACTIVE", "", 0) >>)

\* the documents res.json() may return: a played game, a game not yet played
\* (no statistics), a document without a 'game' object
BoxscoreDocs ==
    { PyDict([game |-> PyDict([homeTeam |-> BOX_HOME, awayTeam |-> BOX_AWAY])]),
      PyDict([game |-> PyDict([homeTeam |-> BoxTeam("LAL", "Lakers", << >>, << >>),
                                awayTeam |-> BOX_AWAY])]),
      PyDict([game |-> PyDict(<< >>)]),
      PyDict([meta |-> PyDict(<< >>)]) }

BoxscoreUpstream ==
    [outcome : Outcomes \ {"ok"}, data : {PyNone}]
      \cup [outcome : {"ok"}, data : BoxscoreDocs]

GameIds == {"0022500001", "bad-id"}

\* a mutant of api_game_boxscore: the exception raised for a document without
\* a 'game' object leaves the handler
api_game_boxscore_uncaught(c, game_id, up) ==
    IF up.outcome # "ok"
    THEN Out(200, SAMPLE_BOXSCORE, "except", << Call("cdn:boxscore", ~Raises(up)) >>, c)
    ELSE Out(500, PyDict([error |-> "Internal Server Error"]), "raise",
             << Call("cdn:boxscore", TRUE) >>, c)

\* a mutant of api_game_boxscore: a failed fetch is answered with empty lists
\* instead of the sample
api_game_boxscore_empty(c, game_id, up) ==
    IF up.outcome # "ok" \/ "game" \notin DOMAIN up.data.v \/ ~Truthy(up.data.v.game)
    THEN Out(200, PyDict([playerStats |-> PyList(<< >>), teamStats |-> PyList(<< >>)]),
             "except", << Call("cdn:boxscore", ~Raises(up)) >>, c)
    ELSE Out(200, SAMPLE_BOXSCORE, "try", << Call("cdn:boxscore", TRUE) >>, c)

api_game_boxscore(c, game_id, up) ==
    LET cdn(ok) == Call("cdn:boxscore", ok) IN
    IF up.outcome # "ok"
    THEN Out(200, SAMPLE_BOXSCORE, "except", << cdn(~Raises(up)) >>, c)
    ELSE IF "game" \notin DOMAIN up.data.v \/ ~Truthy(up.data.v.game)
    THEN Out(200, SAMPLE_BOXSCORE, "except", << cdn(TRUE) >>, c)
    ELSE LET home_team == up.data.v.game.v.homeTeam
             away_team == up.data.v.game.v.awayTeam
             away_p == SelectSeq(away_team.players, Played)
             home_p == SelectSeq(home_team.players, Played)
             player_stats ==
                 [i \in 1..Len(away_p) |-> _format_cdn_player(away_p[i], away_team.teamTricode)]
                   \o [i \in 1..Len(home_p) |-> _format_cdn_player(home_p[i], home_team.teamTricode)]
             team_stats ==
                 (IF DOMAIN away_team.statistics # {}
                  THEN << _format_cdn_team(away_team) >> ELSE << >>)
                   \o (IF DOMAIN home_team.statistics # {}
                       THEN << _format_cdn_team(home_team) >> ELSE << >>)
         IN Out(200, PyDict([playerStats |-> PyList(player_stats),
                             teamStats |-> PyList(team_stats)]),
                "try", << cdn(TRUE) >>, c)

(***************************************************************************)
(* Spec: requests served one at a time                                     *)
(***************************************************************************)
\* the key each cached endpoint uses and the ttl it passes to cache_set
KeyOf ==
    [teams |-> "teams", standings |-> "standings", scoreboard |-> "scoreboard",
     leaders_home |-> "leaders_home", schedule |-> "full_schedule_v2"]

TtlOf ==
    [teams |-> TTL_TEAMS, standings |-> TTL_STANDINGS, scoreboard |-> TTL_SCOREBOARD,
     leaders_home |-> TTL_LEADERS_HOME, schedule |-> TTL_FULL_SCHEDULE]

CachedEndpoints == DOMAIN KeyOf

\* the league schedules the CDN serves in Spec: a schedule with games, an empty
\* JSON object, a JSON array
FEED_GAMES ==
    ScheduleDoc(<<
      << SchedGame("0022500010", GameEt("utc", 1), "Final", LAL(101), BOS(99)),
         SchedGame("0022500011", GameEt("utc", 1), "Final", GSW(120), BOS(121)) >>,
      << SchedGame("0022500500", GameEt("utc", 9000), "7:30 pm ET", LAL(0), GSW(0)) >> >>)

SpecFeeds == { FEED_GAMES, PyDict(<< >>), PyList(<< "unexpected" >>) }

ScheduleUpstream ==
    [outcome : CallFailures, data : {PyNone}]
      \cup [outcome : {"ok"}, data : SpecFeeds]

Init ==
    /\ cache = << >>
    /\ now = 0
    /\ NBA_API_AVAILABLE \in BOOLEAN
    /\ resp = [op |-> "start"]
    /\ lastSet = << >>
    /\ feed = NoFeed
    /\ served = 0
    /\ threads = NoThreads

\* the keys r.cache holds that the request stored
StoredBy(r) == {k \in DOMAIN r.cache : k \notin DOMAIN cache \/ r.cache[k] # cache[k]}

\* the request to endpoint ep with argument arg is served with outcome r
Serve(ep, arg, r) ==
    /\ served < MaxRequests
    /\ served' = served + 1
    /\ cache' = r.cache
    /\ resp' = [op |-> ep, arg |-> arg, at |-> now, status |-> r.status, body |-> r.body,
                path |-> r.path, hit |-> r.hit, calls |-> r.calls, stored |-> StoredBy(r)]
    /\ lastSet' = [k \in (DOMAIN lastSet) \cup StoredBy(r) |->
                      IF k \in StoredBy(r)
                      THEN [t0 |-> now, val |-> r.cache[k].val,
                            ttl |-> r.cache[k].expiry - now]
                      ELSE lastSet[k]]
    /\ UNCHANGED <<now, NBA_API_AVAILABLE, feed, threads>>

\* time.time() is only ever compared with the expiry of a stored entry: the
\* clock moves to the instant just before, at or just after one of them
Elapse ==
    \E k \in DOMAIN cache, d \in {-1, 0, 1} :
        /\ served < MaxRequests
        /\ cache[k].expiry + d > now
        /\ now' = cache[k].expiry + d
        /\ UNCHANGED <<cache, NBA_API_AVAILABLE, resp, lastSet, feed, served, threads>>

\* the outcomes of a call into the provider library: without the library
\* (`if NBA_API_AVAILABLE`) no call is made
Provider(ups) == IF NBA_API_AVAILABLE THEN ups ELSE {NoCall}

ProviderCalls == IF NBA_API_AVAILABLE THEN LeadersCalls ELSE {<<NoCall, NoCall>>}

ApiTeams ==
    \E up \in Provider(TeamsUpstream) :
        Serve("teams", << >>, api_teams(cache, now, NBA_API_AVAILABLE, up))

ApiStandings ==
    \E up \in Provider(StandingsUpstream) :
        Serve("standings", << >>, api_standings(cache, now, NBA_API_AVAILABLE, up))

ApiScoreboard ==
    \E up \in ScoreboardUpstream :
        Serve("scoreboard", << >>, api_scoreboard(cache, now, up))

ApiLeadersHome ==
    \E ups \in ProviderCalls :
        Serve("leaders_home", << >>,
              api_leaders_home(cache, now, NBA_API_AVAILABLE, ups[1], ups[2]))

ApiLeadersFull ==
    \E stat_category \in StatInputsCore, ups \in ProviderCalls :
        Serve("leaders_full", stat_category,
              api_leaders_full(cache, NBA_API_AVAILABLE, stat_category, ups[1], ups[2]))

ApiTeamRoster ==
    \E team_id \in TeamIds, up \in Provider(RosterUpstream) :
        Serve("roster", << team_id >>,
              api_team_roster(cache, NBA_API_AVAILABLE, team_id, up))

ApiTeamSchedule ==
    \E team_id \in TeamIds, up \in ScheduleUpstream :
        Serve("schedule", << team_id >>, api_team_schedule(cache, now, team_id, up))

ApiPlayerProfile ==
    \E player_id \in PlayerIds, up \in Provider(ProfileUpstream) :
        Serve("profile", << player_id >>,
              api_player_profile(cache, NBA_API_AVAILABLE, player_id, up))

ApiPlayerGamelog ==
    \E player_id \in PlayerIds, up \in Provider(GamelogUpstream) :
        Serve("gamelog", << player_id >>,
              api_player_gamelog(cache, NBA_API_AVAILABLE, player_id, up))

ApiGameBoxscore ==
    \E game_id \in GameIds, up \in BoxscoreUpstream :
        Serve("boxscore", << game_id >>, api_game_boxscore(cache, game_id, up))

ApiPlayerAccolades ==
    \E player_id \in PlayerIds, accolades \in AccoladeFiles,
       up \in Provider(AccoladesUpstream) :
        Serve("accolades", << player_id >>,
              api_player_accolades(cache, NBA_API_AVAILABLE, player_id, accolades, up))

\* /api/leaders/<stat_category> for every path segment of StatInputs
ApiLeadersFullAny ==
    \E stat_category \in StatInputs, ups \in ProviderCalls :
        Serve("leaders_full", stat_category,
              api_leaders_full(cache, NBA_API_AVAILABLE, stat_category, ups[1], ups[2]))

Next ==
    \/ Elapse
    \/ ApiTeams
    \/ ApiStandings
    \/ ApiScoreboard
    \/ ApiLeadersHome
    \/ ApiLeadersFull
    \/ ApiTeamRoster
    \/ ApiTeamSchedule
    \/ ApiPlayerProfile
    \/ ApiPlayerGamelog
    \/ ApiGameBoxscore
    \/ ApiPlayerAccolades

Spec == Init /\ [][Next]_vars

\* SpecLeaders: the two leaders endpoints, every path segment of StatInputs
NextLeaders == Elapse \/ ApiLeadersHome \/ ApiLeadersFullAny

SpecLeaders == Init /\ [][NextLeaders]_vars

(***************************************************************************)
(* SpecSched: the league schedule of the CDN is built game by game, then    *)
(* /api/team/<id>/schedule is requested                                    *)
(***************************************************************************)
\* the instant of the requests; games at 1 and 2 are past
SchedNow == 3

\* the feed holds at most MaxGames games, of any kind up to MaxMixed games
MaxGames == 6
MaxMixed == 2

GAME_IDS ==
    << "0022500001", "0022500002", "0022500003", "0022500004",
       "0022500005", "0022500006", "0022500007", "0022500008" >>

SchedKind(et, status, home, away) ==
    [et |-> et, status |-> status, home |-> home, away |-> away]

\* kinds of game found in long feeds: a past Final, a Final with a time that
\* does not parse, a game to come
BulkKinds ==
    { SchedKind(GameEt("utc", 1), "Final", LAL(101), BOS(99)),
      SchedKind(GameEt("garbage", 0), "Final", LAL(95), GSW(95)),
      SchedKind(GameEt("utc", SchedNow + 1), "7:30 pm ET", LAL(0), BOS(0)) }

\* further kinds: a Final with a future time, another past Final, a game in
\* progress, a postponed game without gameEt, a time without offset, a game of
\* two other teams, a later game to come
SchedKinds ==
    BulkKinds \cup
    { SchedKind(GameEt("utc", SchedNow + 2), "Final", BOS(88), LAL(90)),
      SchedKind(GameEt("utc", 2), "Final", GSW(120), LAL(121)),
      SchedKind(GameEt("utc", 2), "Q3 5:00", LAL(70), GSW(66)),
      SchedKind(PyNone, "PPD", GSW(0), LAL(0)),
      SchedKind(GameEt("naive", 1), "Final", LAL(101), GSW(99)),
      SchedKind(GameEt("utc", 1), "Final", BOS(110), GSW(100)),
      SchedKind(GameEt("utc", SchedNow + 2), "8:00 pm ET", GSW(0), LAL(0)) }

MakeGame(kind, id) == SchedGame(id, kind.et, kind.status, kind.home, kind.away)

IsBulk(g) == \E kind \in BulkKinds : g = MakeGame(kind, g.gameId)

\* the document the CDN serves for the games of feed, one date per game
FeedDoc == ScheduleDoc([i \in 1..Len(feed) |-> << feed[i] >>])

InitSched ==
    /\ cache = << >>
    /\ now = SchedNow
    /\ NBA_API_AVAILABLE = TRUE
    /\ resp = [op |-> "start"]
    /\ lastSet = << >>
    /\ feed = << >>
    /\ served = 0
    /\ threads = NoThreads

\* the league publishes one more game
AddGame ==
    \E kind \in SchedKinds :
        /\ served = 0
        /\ Len(feed) < MaxGames
        /\ \/ Len(feed) < MaxMixed
           \/ /\ kind \in BulkKinds
              /\ \A i \in 2..Len(feed) : IsBulk(feed[i])
        /\ feed' = Append(feed, MakeGame(kind, GAME_IDS[Len(feed) + 1]))
        /\ UNCHANGED <<cache, now, NBA_API_AVAILABLE, resp, lastSet, served, threads>>

ApiTeamScheduleFeed ==
    \E team_id \in TeamIds :
        Serve("schedule", << team_id >>,
              api_team_schedule(cache, now, team_id, [outcome |-> "ok", data |-> FeedDoc]))

NextSched == AddGame \/ ApiTeamScheduleFeed

SpecSched == InitSched /\ [][NextSched]_vars

(***************************************************************************)
(* SpecConc: the threads of the server handle /api/teams requests, one     *)
(* access to _CACHE at a time                                              *)
(***************************************************************************)
MaxThreads == 2
MaxArrivals == 3

Threads == 1..MaxThreads

\* a thread: pc is idle, done, or the line of cache_get / api_teams it is about
\* to run; v is the local v of cache_get; out is the response being built
Thread(pc, v, out) == [pc |-> pc, v |-> v, out |-> out]

InitConc ==
    /\ cache = << >>
    /\ now = 0
    /\ NBA_API_AVAILABLE \in BOOLEAN
    /\ resp = [op |-> "start"]
    /\ lastSet = << >>
    /\ feed = NoFeed
    /\ served = 0
    /\ threads = [t \in Threads |-> Thread("idle", PyNone, PyNone)]

\* what Flask answers when an exception leaves the view function
INTERNAL_SERVER_ERROR(c) ==
    Out(500, [t |-> "html", v |-> "500 Internal Server Error"], "raise", << >>, c)

\* a thread takes a GET /api/teams
ConcArrive ==
    \E t \in Threads :
        /\ threads[t].pc \in {"idle", "done"}
        /\ served < MaxArrivals
        /\ served' = served + 1
        /\ threads' = [threads EXCEPT ![t] = Thread("get", PyNone, PyNone)]
        /\ UNCHANGED <<cache, now, NBA_API_AVAILABLE, resp, lastSet, feed>>

\* v = _CACHE.get(key); if not v: return None
ConcGet ==
    \E t \in Threads :
        /\ threads[t].pc = "get"
        /\ threads' = [threads EXCEPT ![t] =
                          IF "teams" \in DOMAIN cache
                          THEN Thread("expiry", cache["teams"], PyNone)
                          ELSE Thread("try", PyNone, PyNone)]
        /\ UNCHANGED <<cache, now, NBA_API_AVAILABLE, resp, lastSet, feed, served>>

\* the response of thread t is sent
Respond(t, out) ==
    /\ threads' = [threads EXCEPT ![t] = Thread("done", threads[t].v, out)]
    /\ resp' = [op |-> "teams", arg |-> << >>, at |-> now, status |-> out.status,
                body |-> out.body, path |-> out.path, hit |-> out.hit,
                calls |-> out.calls, stored |-> {}]

\* expiry, val = v; if time.time() > expiry: ...; return val, and the
\* `if cached: return jsonify(cached)` of api_teams
ConcExpiry ==
    \E t \in Threads :
        /\ threads[t].pc = "expiry"
        /\ IF now > threads[t].v.expiry
           THEN /\ threads' = [threads EXCEPT ![t].pc = "in"]
                /\ UNCHANGED resp
           ELSE IF Truthy(threads[t].v.val)
           THEN Respond(t, Out(200, threads[t].v.val, "cache", << >>, cache))
           ELSE /\ threads' = [threads EXCEPT ![t].pc = "try"]
                /\ UNCHANGED resp
        /\ UNCHANGED <<cache, now, NBA_API_AVAILABLE, lastSet, feed, served>>

\* if key in _CACHE
ConcIn ==
    \E t \in Threads :
        /\ threads[t].pc = "in"
        /\ threads' = [threads EXCEPT ![t].pc =
                          IF "teams" \in DOMAIN cache THEN "del" ELSE "try"]
        /\ UNCHANGED <<cache, now, NBA_API_AVAILABLE, resp, lastSet, feed, served>>

\* del _CACHE[key]: KeyError when another thread deleted the key since the
\* test; cache_get is called outside the try block of api_teams
ConcDel ==
    \E t \in Threads :
        /\ threads[t].pc = "del"
        /\ IF "teams" \in DOMAIN cache
           THEN /\ cache' = DictDel(cache, "teams")
                /\ threads' = [threads EXCEPT ![t].pc = "try"]
                /\ UNCHANGED resp
           ELSE /\ Respond(t, INTERNAL_SERVER_ERROR(cache))
                /\ UNCHANGED cache
        /\ UNCHANGED <<now, NBA_API_AVAILABLE, lastSet, feed, served>>

\* time passes while the threads run: to just before, at or just after the
\* expiry of the stored entry
ConcElapse ==
    \E d \in {-1, 0, 1} :
        /\ "teams" \in DOMAIN cache
        /\ cache["teams"].expiry + d > now
        /\ now' = cache["teams"].expiry + d
        /\ UNCHANGED <<cache, NBA_API_AVAILABLE, resp, lastSet, feed, served, threads>>

\* the try block up to cache_set, or the except block up to cache_set
ConcFetch ==
    \E t \in Threads, up \in Provider(TeamsUpstream) :
        /\ threads[t].pc = "try"
        /\ threads' = [threads EXCEPT ![t] =
                          Thread("set", threads[t].v,
                                 api_teams(<< >>, now, NBA_API_AVAILABLE, up))]
        /\ UNCHANGED <<cache, now, NBA_API_AVAILABLE, resp, lastSet, feed, served>>

\* cache_set('teams', ..., ttl=3600); return jsonify(...)
ConcSet ==
    \E t \in Threads :
        /\ threads[t].pc = "set"
        /\ cache' = cache_set(cache, "teams", threads[t].out.body, TTL_TEAMS, now)
        /\ lastSet' = DictPut(lastSet, "teams",
                              [t0 |-> now, val |-> threads[t].out.body, ttl |-> TTL_TEAMS])
        /\ Respond(t, threads[t].out)
        /\ UNCHANGED <<now, NBA_API_AVAILABLE, feed, served>>

NextConc ==
    \/ ConcElapse
    \/ ConcArrive
    \/ ConcGet
    \/ ConcExpiry
    \/ ConcIn
    \/ ConcDel
    \/ ConcFetch
    \/ ConcSet

SpecConc == InitConc /\ [][NextConc]_vars

(***************************************************************************)
(* SpecNorm: safe_records_from_df applied to a payload of the provider,    *)
(* then to its own output                                                  *)
(***************************************************************************)
\* a table has at most MaxRows rows
MaxRows == 2

Column(name, dtype) == [name |-> name, dtype |-> dtype]

DataFrame(columns, rows) == [t |-> "DataFrame", columns |-> columns, rows |-> rows]

\* the column layouts of the tables: one or two columns of the three dtypes
\* the normalizer tells apart, and a column name that occurs twice
NormLayouts ==
    { << Column("PTS", "number") >>,
      << Column("PLAYER", "object") >>,
      << Column("GAME_DATE", "datetime") >>,
      << Column("PLAYER", "object"), Column("PTS", "number") >>,
      << Column("PTS", "number"), Column("GAME_DATE", "datetime") >>,
      << Column("PTS", "number"), Column("PTS", "number") >> }

\* the values a column of a dtype can hold: a float column a number, NaN or an
\* infinity; an object column a string, None or NaN; a datetime64 column a
\* timestamp or NaT
CellsOf(dtype) ==
    CASE dtype = "number" -> {Num(27), NaN, [k |-> "inf"], [k |-> "-inf"]}
      [] dtype = "object" -> {Str("LeBron James"), [k |-> "none"], NaN}
      [] dtype = "datetime" -> {[k |-> "ts", v |-> "2025-04-08T00:00:00"], [k |-> "nat"]}

\* the rows a table of these columns can hold
RECURSIVE NormRows(_)
NormRows(columns) ==
    IF Len(columns) = 0 THEN {<< >>}
    ELSE {Append(row, cell) :
             row \in NormRows(SubSeq(columns, 1, Len(columns) - 1)),
             cell \in CellsOf(columns[Len(columns)].dtype)}

\* the tables of a layout, the empty table included
NormTables ==
    UNION {{DataFrame(columns, rows) :
               rows \in UNION {[1..n -> NormRows(columns)] : n \in 0..MaxRows}} :
           columns \in NormLayouts}

\* what callers pass: None, a list of records (returned as it is), a table
NormInputs ==
    {PyNone, PyList(<< >>), PyList(<< [PTS |-> Num(27)] >>), PyList(<< [PTS |-> NaN] >>)}
        \cup NormTables

InitNorm ==
    /\ cache = << >>
    /\ now = 0
    /\ NBA_API_AVAILABLE = TRUE
    /\ resp = [op |-> "start"]
    /\ lastSet = << >>
    /\ feed \in NormInputs
    /\ served = 0
    /\ threads = NoThreads

\* safe_records_from_df(df) on the payload
Normalize ==
    /\ resp.op = "start"
    /\ resp' = [op |-> "safe_records_from_df", arg |-> feed, again |-> FALSE,
                out |-> safe_records_from_df(feed)]
    /\ UNCHANGED <<cache, now, NBA_API_AVAILABLE, lastSet, feed, served, threads>>

\* safe_records_from_df on the list the previous call returned
NormalizeAgain ==
    /\ resp.op = "safe_records_from_df"
    /\ ~resp.again
    /\ resp' = [op |-> "safe_records_from_df", arg |-> PyList(resp.out), again |-> TRUE,
                out |-> safe_records_from_df(PyList(resp.out))]
    /\ UNCHANGED <<cache, now, NBA_API_AVAILABLE, lastSet, feed, served, threads>>

NextNorm == Normalize \/ NormalizeAgain

SpecNorm == InitNorm /\ [][NextNorm]_vars

(***************************************************************************)
(* SpecBox: the box score document of the CDN is built player by player,   *)
(* then /api/game/<id>/boxscore is requested                               *)
(***************************************************************************)
\* the document lists at most MaxAway players of the away team and MaxHome of
\* the home team
MaxAway == 2
MaxHome == 1

\* the players of the two teams, in the order the feed lists them
BOX_ROSTER ==
    [awayTeam |-> << [id |-> 201939, name |-> "Stephen Curry"],
                     [id |-> 203110, name |-> "Draymond Green"],
                     [id |-> 1626172, name |-> "Kevon Looney"] >>,
     homeTeam |-> << [id |-> 2544, name |-> "LeBron James"],
                     [id |-> 1629029, name |-> "Luka Doncic"] >>]

\* what the feed says of a player: he played; he is active with no minutes
\* string; he is inactive; his minutes are the string '00:00'; he is active
\* and did not play (the feed's PT00M00.00S)
PlayerKinds ==
    { [status |-> "ACTIVE", minutes |-> "PT36M12.00S"],
      [status |-> "ACTIVE", minutes |-> ""],
      [status |-> "INACTIVE", minutes |-> "PT05M03.50S"],
      [status |-> "ACTIVE", minutes |-> "00:00"],
      [status |-> "ACTIVE", minutes |-> "PT00M00.00S"] }

\* the statistics object of a team: present, or empty before the game
BoxTeamStatistics == { [points |-> 108, assists |-> 25], << >> }

\* the document the CDN serves for the game
BoxDoc == PyDict([game |-> PyDict(feed)])

InitBox ==
    /\ cache = << >>
    /\ now = 0
    /\ NBA_API_AVAILABLE = TRUE
    /\ resp = [op |-> "start"]
    /\ lastSet = << >>
    /\ \E away_statistics \in BoxTeamStatistics, home_statistics \in BoxTeamStatistics :
          feed = [awayTeam |-> BoxTeam("GSW", "Warriors", away_statistics, << >>),
                  homeTeam |-> BoxTeam("LAL", "Lakers", home_statistics, << >>)]
    /\ served = 0
    /\ threads = NoThreads

\* the feed lists one more player of a team
AddPlayer ==
    \E side \in {"awayTeam", "homeTeam"}, kind \in PlayerKinds :
        LET n == Len(feed[side].players) + 1 IN
        /\ served = 0
        /\ n <= (IF side = "awayTeam" THEN MaxAway ELSE MaxHome)
        /\ n <= Len(BOX_ROSTER[side])
        /\ feed' = [feed EXCEPT ![side].players =
                       Append(@, CdnPlayer(BOX_ROSTER[side][n].id, BOX_ROSTER[side][n].name,
                                           kind.status, kind.minutes, 10 * n))]
        /\ UNCHANGED <<cache, now, NBA_API_AVAILABLE, resp, lastSet, served, threads>>

ApiGameBoxscoreFeed ==
    Serve("boxscore", << "0022500001" >>,
          api_game_boxscore(cache, "0022500001", [outcome |-> "ok", data |-> BoxDoc]))

NextBox == AddPlayer \/ ApiGameBoxscoreFeed

SpecBox == InitBox /\ [][NextBox]_vars

(***************************************************************************)
(* Claims about the handlers                                               *)
(***************************************************************************)
\* the last operation was a request to endpoint ep
Served(ep) == resp.op = ep

\* the path segment s is name in some mix of upper and lower case
C1_SameLetters(s, name) ==
    /\ Len(s) = Len(name)
    /\ \A i \in 1..Len(s) :
          \/ s[i] = name[i]
          \/ \E j \in 1..26 : LowerCase[j] = s[i] /\ UpperCase[j] = name[i]

\* the 14 names of the claim
C1_Names ==
    { <<"P","T","S">>, <<"A","S","T">>, <<"R","E","B">>, <<"B","L","K">>,
      <<"S","T","L">>, <<"F","G","M">>, <<"F","G","A">>, <<"F","G","3","M">>,
      <<"F","G","3","A">>, <<"F","T","M">>, <<"F","T","A">>,
      <<"F","G","_","P","C","T">>, <<"F","G","3","_","P","C","T">>,
      <<"F","T","_","P","C","T">> }

C1_Listed(s) == \E name \in C1_Names : C1_SameLetters(s, name)

\* C1: /api/leaders/<stat> answers 200 with an array when <stat> uppercased is
\* one of the 14 allow-listed names, whatever the upstream did, and 400 with
\* {"error": "invalid stat"} and no upstream call for any other string.
C1_LeadersAllowList ==
    Served("leaders_full") =>
        IF C1_Listed(resp.arg)
        THEN resp.status = 200 /\ resp.body.t = "list"
        ELSE /\ resp.status = 400
             /\ resp.body = PyDict([error |-> "invalid stat"])
             /\ resp.calls = << >>

\* a lower-case allowed name answered 200 from the sample after the upstream
\* failed
C1_Witness ==
    /\ Served("leaders_full")
    /\ resp.arg = <<"f","g","3","_","p","c","t">>
    /\ resp.status = 200
    /\ resp.body = SAMPLE_LEADERS_FULL
    /\ resp.calls # << >>
    /\ ~resp.calls[Len(resp.calls)].ok

\* the sample of the endpoint the last request went to
SampleOf(r) ==
    CASE r.op = "teams" -> SAMPLE_TEAMS
      [] r.op = "standings" -> SAMPLE_STANDINGS
      [] r.op = "scoreboard" -> SAMPLE_SCOREBOARD(r.at)
      [] r.op = "leaders_home" -> SAMPLE_LEADERS_HOME
      [] r.op = "leaders_full" -> SAMPLE_LEADERS_FULL
      [] r.op = "roster" -> SAMPLE_ROSTER
      [] r.op = "schedule" -> SAMPLE_SCHEDULE
      [] r.op = "profile" -> SAMPLE_PROFILE(r.arg[1])
      [] r.op = "gamelog" -> SAMPLE_GAMELOG
      [] r.op = "boxscore" -> SAMPLE_BOXSCORE
      [] r.op = "accolades" -> PyDict([accolades |-> PyList(<< >>)])

Endpoints ==
    {"teams", "standings", "scoreboard", "leaders_home", "leaders_full", "roster",
     "schedule", "profile", "gamelog", "boxscore", "accolades"}

\* the endpoints whose live path is a call into the provider library
ProviderEndpoints ==
    {"teams", "standings", "leaders_home", "leaders_full", "roster", "profile", "gamelog"}

SomeCallFailed(r) == \E i \in 1..Len(r.calls) : ~r.calls[i].ok

Rejected(r) == r.op = "leaders_full" /\ ~C1_Listed(r.arg)

\* C3: every handler answers 200, with the endpoint's sample whenever an
\* upstream call failed, the payload was unexpected or the provider is absent;
\* the only other status is the 400 of /api/leaders/<stat> for a stat outside
\* the allow-list; no failure leaves a handler as anything but a response.
C3_AlwaysOkOrSample ==
    resp.op \in Endpoints =>
        /\ resp.status \in {200, 400}
        /\ resp.status = 400 <=> Rejected(resp)
        /\ resp.path \in {"cache", "try", "except", "reject"}
        /\ (SomeCallFailed(resp) \/ resp.path = "except") => resp.body = SampleOf(resp)
        /\ (resp.op \in ProviderEndpoints /\ ~NBA_API_AVAILABLE /\ ~Rejected(resp)
              /\ resp.path # "cache") => resp.body = SampleOf(resp)

\* the box score CDN answered with a document without a 'game' object and the
\* handler answered 200 with the sample
C3_Witness ==
    /\ Served("boxscore")
    /\ resp.calls = << Call("cdn:boxscore", TRUE) >>
    /\ resp.path = "except"
    /\ resp.status = 200
    /\ resp.body = SAMPLE_BOXSCORE

\* the positions in feed of the games of team_id
MyGames(team_id) ==
    {i \in 1..Len(feed) :
        feed[i].homeTeam.teamId = team_id \/ feed[i].awayTeam.teamId = team_id}

\* the game ids of the entries of a list of the response
Ids(list) == {list.v[i].GAME_ID : i \in 1..Len(list.v)}

C4_Final(g) == g.gameStatusText = "Final"

\* g has a timestamp that parses
C4_Timed(g) == g.gameEt # PyNone /\ g.gameEt.fmt \in {"utc", "loose", "naive"}

C4_Future(g, at) == C4_Timed(g) /\ g.gameEt.at > at

C4_Finals(team_id) == {i \in MyGames(team_id) : C4_Final(feed[i])}

C4_ToCome(team_id, at) ==
    {i \in MyGames(team_id) :
        ~C4_Final(feed[i]) /\ (C4_Future(feed[i], at) \/ ~C4_Timed(feed[i]))}

\* C4 (as stated): in a schedule response built from the feed, every Final
\* game of the team is in `recent` and not in `upcoming`, whatever its
\* timestamp, and every non-Final game with a future timestamp is in `upcoming`
\* and not in `recent`.
C4_AsStated ==
    (Served("schedule") /\ resp.path = "try") =>
        \A i \in MyGames(resp.arg[1]) :
            /\ C4_Final(feed[i]) =>
                  /\ feed[i].gameId \in Ids(resp.body.v.recent)
                  /\ feed[i].gameId \notin Ids(resp.body.v.upcoming)
            /\ (~C4_Final(feed[i]) /\ C4_Future(feed[i], resp.at)) =>
                  /\ feed[i].gameId \in Ids(resp.body.v.upcoming)
                  /\ feed[i].gameId \notin Ids(resp.body.v.recent)

\* C4 (amended): in a schedule response built from the feed, `recent` holds
\* only Final games of the team and `upcoming` only non-Final ones; a Final
\* game, whatever its timestamp, is in `recent` when the team has at most 5
\* Final games, and `recent` holds 5 of them otherwise; a non-Final game with a
\* future timestamp is in `upcoming` when at most 5 games of the team are to
\* come, and `upcoming` holds 5 of them otherwise. When the handler falls back
\* to the sample (a timestamp without offset raises), no game of the feed is
\* placed.
C4_FinalIsRecent ==
    /\ (Served("schedule") /\ resp.path = "try") =>
          LET team_id == resp.arg[1]
              recent == resp.body.v.recent
              upcoming == resp.body.v.upcoming
              Min5(n) == IF n < 5 THEN n ELSE 5
          IN
          /\ Ids(recent) \subseteq {feed[i].gameId : i \in C4_Finals(team_id)}
          /\ Ids(upcoming) \subseteq {feed[i].gameId : i \in C4_ToCome(team_id, resp.at)}
          /\ Len(recent.v) = Min5(Cardinality(C4_Finals(team_id)))
          /\ Cardinality(Ids(recent)) = Len(recent.v)
          /\ Len(upcoming.v) = Min5(Cardinality(C4_ToCome(team_id, resp.at)))
          /\ Cardinality(Ids(upcoming)) = Len(upcoming.v)
    /\ (Served("schedule") /\ resp.path = "except") => resp.body = SAMPLE_SCHEDULE

\* six Final games of the Lakers, one of them without a parseable time;
\* `recent` holds five
C4_Witness ==
    /\ Served("schedule")
    /\ resp.path = "try"
    /\ resp.arg = << LAL_ID >>
    /\ Cardinality(C4_Finals(LAL_ID)) = 6
    /\ \E i \in C4_Finals(LAL_ID) : ~C4_Timed(feed[i])
    /\ Len(resp.body.v.recent.v) = 5

\* C5 (as stated): under every interleaving of the threads, what a thread read
\* from the cache is a complete (expiry, value) pair that one cache_set wrote,
\* and every request that completes has a well-formed response of its
\* endpoint's shape: no handler fails because of the interleaving.
C5_NeverCorrupted ==
    \A t \in Threads :
        /\ threads[t].v # PyNone =>
              /\ DOMAIN threads[t].v = {"expiry", "val"}
              /\ threads[t].v.val.t = "list"
        /\ threads[t].pc = "done" =>
              /\ threads[t].out.status = 200
              /\ threads[t].out.body.t = "list"

\* C6 (as stated): when the live path of a cached endpoint fails and the sample
\* is returned, no cache entry is created or replaced for its key.
C6_AsStated ==
    (resp.op \in CachedEndpoints /\ resp.path = "except") => resp.stored = {}

\* C6 (amended): when the live path of teams, standings, scoreboard or leaders
\* homepage fails, the handler stores the sample under the endpoint's key with
\* the endpoint's ttl; the schedule handler stores nothing when its fetch fails
\* and stores the fetched document, not the sample, when the processing of a
\* fetched document fails. The other endpoints store nothing.
C6_SampleIsCached ==
    /\ resp.op \in Endpoints \ CachedEndpoints => resp.stored = {}
    /\ (resp.op \in CachedEndpoints \ {"schedule"} /\ resp.path = "except") =>
          /\ resp.stored = {KeyOf[resp.op]}
          /\ KeyOf[resp.op] \in DOMAIN cache
          /\ cache[KeyOf[resp.op]] =
                [expiry |-> resp.at + TtlOf[resp.op], val |-> SampleOf(resp)]
    /\ (Served("schedule") /\ SomeCallFailed(resp)) => resp.stored = {}
    /\ (Served("schedule") /\ resp.path = "except" /\ resp.stored # {}) =>
          /\ resp.calls = << Call("cdn:scheduleLeagueV2_1", TRUE) >>
          /\ cache["full_schedule_v2"].val # SAMPLE_SCHEDULE

\* the standings call failed and the sample sits in the cache
C6_Witness ==
    /\ Served("standings")
    /\ SomeCallFailed(resp)
    /\ "standings" \in DOMAIN cache
    /\ cache["standings"].val = SAMPLE_STANDINGS

\* C7 (as stated): a request that is not served from the cache makes exactly
\* one live retrieval attempt, and a failed attempt is answered with the sample.
C7_AsStated ==
    (resp.op \in Endpoints /\ ~resp.hit) =>
        /\ Len(resp.calls) = 1
        /\ ~resp.calls[1].ok => resp.body = SampleOf(resp)

\* the upstream resources a request to endpoint op may ask for, in this order
ResourcesOf(op) ==
    CASE op = "teams" -> << "teams_static.get_teams" >>
      [] op = "standings" -> << "LeagueStandingsV3" >>
      [] op = "scoreboard" -> << "cdn:todaysScoreboard" >>
      [] op \in {"leaders_home", "leaders_full"} ->
            << "LeagueDashPlayerStats", "teams_static.get_teams" >>
      [] op = "roster" -> << "CommonTeamRoster" >>
      [] op = "schedule" -> << "cdn:scheduleLeagueV2_1" >>
      [] op \in {"profile", "accolades"} -> << "CommonPlayerInfo" >>
      [] op = "gamelog" -> << "PlayerGameLog" >>
      [] op = "boxscore" -> << "cdn:boxscore" >>

\* C7 (amended): a request asks each of its endpoint's upstream resources at
\* most once, in order, and nothing after a call that raised: a call that raised
\* is never repeated and the sample is the answer. The number of calls is zero
\* for a cache hit, a rejected stat and a provider endpoint without provider,
\* one for a CDN endpoint that missed the cache, and up to two (player stats,
\* then the team list) for the leaders endpoints.
C7_NoRetry ==
    resp.op \in Endpoints =>
        /\ Len(resp.calls) <= Len(ResourcesOf(resp.op))
        /\ \A i \in 1..Len(resp.calls) :
              /\ resp.calls[i].target = ResourcesOf(resp.op)[i]
              /\ i < Len(resp.calls) => resp.calls[i].ok
        /\ SomeCallFailed(resp) => resp.body = SampleOf(resp) /\ resp.path = "except"
        /\ (resp.hit \/ Rejected(resp)) => resp.calls = << >>
        /\ (resp.op \in ProviderEndpoints \cup {"accolades"} /\ ~NBA_API_AVAILABLE) =>
              resp.calls = << >>
        /\ (resp.op \in {"scoreboard", "schedule", "boxscore"} /\ ~resp.hit) =>
              Len(resp.calls) = 1

\* the roster call raised; it was the only call and the sample is the answer
C7_Witness ==
    /\ Served("roster")
    /\ resp.calls = << Call("CommonTeamRoster", FALSE) >>
    /\ resp.body = SAMPLE_ROSTER

\* the ttl values of the claim, by endpoint
C9_Ttl ==
    [teams |-> 3600, standings |-> 30, scoreboard |-> 15, leaders_home |-> 30,
     schedule |-> 3600]

\* the request served by this step went to the cached endpoint ep, whose key
\* was last stored at lastSet[KeyOf[ep]].t0
AfterStore(ep) ==
    /\ served' = served + 1
    /\ resp'.op = ep
    /\ KeyOf[ep] \in DOMAIN lastSet

\* C9 (as stated): a request within the ttl of the last store of its key is
\* served from the cache without an upstream call, and a request after the ttl
\* has elapsed makes a fresh upstream attempt.
C9_AsStated ==
    [][\A ep \in CachedEndpoints :
          AfterStore(ep) =>
              LET age == now - lastSet[KeyOf[ep]].t0 IN
              /\ age < C9_Ttl[ep] => resp'.hit /\ resp'.calls = << >>
              /\ age > C9_Ttl[ep] => resp'.calls # << >>]_vars

\* C9 (amended): a request at most ttl seconds after the last store of its key
\* is served from the cache without an upstream call when the stored value is
\* truthy; a request more than ttl seconds after it is not served from the
\* cache and runs the live path, which calls upstream unless the endpoint needs
\* the provider and the provider is absent. The ttl is 3600 s for teams, 30 s
\* for standings and leaders homepage, 15 s for scoreboard, 3600 s for the
\* league schedule.
C9_CachedWithinTtl ==
    [][\A ep \in CachedEndpoints :
          AfterStore(ep) =>
              LET age == now - lastSet[KeyOf[ep]].t0 IN
              /\ lastSet[KeyOf[ep]].ttl = C9_Ttl[ep]
              /\ (age <= C9_Ttl[ep] /\ Truthy(lastSet[KeyOf[ep]].val)) =>
                    /\ resp'.hit
                    /\ resp'.calls = << >>
                    /\ resp'.stored = {}
              /\ age > C9_Ttl[ep] =>
                    /\ ~resp'.hit
                    /\ resp'.path # "cache"
                    /\ (ep \in {"scoreboard", "schedule"} \/ NBA_API_AVAILABLE) =>
                          resp'.calls # << >>]_vars

\* a scoreboard request exactly 15 s after the store was served from the cache
C9_Witness ==
    /\ Served("scoreboard")
    /\ resp.hit
    /\ "scoreboard" \in DOMAIN lastSet
    /\ resp.at = lastSet["scoreboard"].t0 + 15

\* the fallback list of the claim
C10_Fallback ==
    << [full_name |-> "Los Angeles Lakers", logoUrl |-> "/static/logo.png"],
       [full_name |-> "Golden State Warriors", logoUrl |-> "/static/logo.png"] >>

\* C10: without the provider library, /api/teams answers 200 with a list of
\* exactly two teams, Los Angeles Lakers and Golden State Warriors, each with
\* logoUrl "/static/logo.png".
C10_TeamsFallback ==
    (Served("teams") /\ ~NBA_API_AVAILABLE) =>
        /\ resp.status = 200
        /\ resp.body.t = "list"
        /\ Len(resp.body.v) = 2
        /\ \A i \in 1..2 :
              /\ resp.body.v[i].full_name = C10_Fallback[i].full_name
              /\ resp.body.v[i].logoUrl = C10_Fallback[i].logoUrl

\* /api/teams without the provider, on an empty cache
C10_Witness ==
    /\ Served("teams")
    /\ ~NBA_API_AVAILABLE
    /\ ~resp.hit
    /\ resp.calls = << >>
    /\ Len(resp.body.v) = 2

\* the CDN answered the box score request with an error, or with JSON that
\* has no 'game' object
C11_NoGame(up) ==
    \/ up.outcome \in {"network_error", "timeout", "http_error", "malformed"}
    \/ up.outcome = "ok" /\ "game" \notin DOMAIN up.data.v

\* the tricodes of the teamStats entries of a box score body, in order
C11_Tricodes(body) == [i \in 1..Len(body.v.teamStats.v) |-> body.v.teamStats.v[i].teamTricode]

\* C11: when the CDN answers /api/game/<id>/boxscore with an error status or
\* with JSON lacking a 'game' object, the response is HTTP 200 with the literal
\* sample box score, whose teamStats are the GSW and the LAL entry.
C11_BoxscoreSample ==
    /\ \A game_id \in GameIds, up \in BoxscoreUpstream :
          C11_NoGame(up) =>
              LET r == api_game_boxscore(cache, game_id, up) IN
              /\ r.status = 200
              /\ r.body = SAMPLE_BOXSCORE
              /\ C11_Tricodes(r.body) = << "GSW", "LAL" >>
              /\ Len(r.body.v.playerStats.v) = 1
    /\ (Served("boxscore") /\ SomeCallFailed(resp)) =>
          /\ resp.status = 200
          /\ resp.body = SAMPLE_BOXSCORE
          /\ C11_Tricodes(resp.body) = << "GSW", "LAL" >>

\* a box score request for a bad id whose fetch raised, answered with the sample
C11_Witness ==
    /\ Served("boxscore")
    /\ resp.arg = << "bad-id" >>
    /\ resp.calls = << Call("cdn:boxscore", FALSE) >>
    /\ resp.status = 200
    /\ C11_Tricodes(resp.body) = << "GSW", "LAL" >>

\* the game of the feed behind an entry of the response
C12_Game(entry) == feed[CHOOSE i \in 1..Len(feed) : feed[i].gameId = entry.GAME_ID]

\* the position in feed of the i-th entry of a list of the response
C12_Pos(list, i) == CHOOSE p \in 1..Len(feed) : feed[p].gameId = list.v[i].GAME_ID

\* C12 (as stated): in a schedule response built from the feed, `recent` has
\* at most 5 entries, in descending order of game time, and no omitted Final
\* game of the team has a game time while a listed one has none or an earlier
\* one; `upcoming` has at most 5 entries, in ascending order of game time, and
\* no omitted game to come has a game time while a listed one has none or a
\* later one.
C12_AsStated ==
    (Served("schedule") /\ resp.path = "try") =>
        LET team_id == resp.arg[1]
            recent == resp.body.v.recent
            upcoming == resp.body.v.upcoming
            Rec(i) == feed[C12_Pos(recent, i)]
            Up(i) == feed[C12_Pos(upcoming, i)]
        IN
        /\ Len(recent.v) <= 5
        /\ Len(upcoming.v) <= 5
        /\ \A i, j \in 1..Len(recent.v) :
              (i < j /\ C4_Timed(Rec(i)) /\ C4_Timed(Rec(j)))
                  => Rec(i).gameEt.at >= Rec(j).gameEt.at
        /\ \A i, j \in 1..Len(upcoming.v) :
              (i < j /\ C4_Timed(Up(i)) /\ C4_Timed(Up(j)))
                  => Up(i).gameEt.at <= Up(j).gameEt.at
        /\ \A i \in 1..Len(recent.v) :
              \A v \in C4_Finals(team_id) :
                  (feed[v].gameId \notin Ids(recent) /\ C4_Timed(feed[v]))
                      => C4_Timed(Rec(i)) /\ Rec(i).gameEt.at >= feed[v].gameEt.at
        /\ \A i \in 1..Len(upcoming.v) :
              \A v \in C4_ToCome(team_id, resp.at) :
                  (feed[v].gameId \notin Ids(upcoming) /\ C4_Timed(feed[v]))
                      => C4_Timed(Up(i)) /\ Up(i).gameEt.at <= feed[v].gameEt.at

\* the order the handler sorts by: a game without a parseable time comes before
\* every game with one, and games of the same time come in feed order
C12_Key(p) == IF C4_Timed(feed[p]) THEN feed[p].gameEt.at ELSE -1

C12_Before(p, q) == C12_Key(p) < C12_Key(q) \/ (C12_Key(p) = C12_Key(q) /\ p < q)

\* C12 (amended): in a schedule response built from the feed, with the games
\* ordered by game time, a game without a parseable time counting as earlier
\* than every game with one and games of equal time in feed order: `recent`
\* holds the last 5 (or all, if fewer) of the team's games classified as
\* recent, latest first; `upcoming` holds the first 5 (or all, if fewer) of the
\* team's games classified as upcoming, earliest first, so that a game without
\* a time takes a place ahead of every dated game.
C12_LatestAndEarliestFive ==
    (Served("schedule") /\ resp.path = "try") =>
        LET team_id == resp.arg[1]
            finals == C4_Finals(team_id)
            to_come == C4_ToCome(team_id, resp.at)
            recent == [i \in 1..Len(resp.body.v.recent.v) |-> C12_Pos(resp.body.v.recent, i)]
            upcoming == [i \in 1..Len(resp.body.v.upcoming.v) |-> C12_Pos(resp.body.v.upcoming, i)]
            Listed(list) == {list[i] : i \in 1..Len(list)}
            Min5(n) == IF n < 5 THEN n ELSE 5
        IN
        /\ Len(recent) = Min5(Cardinality(finals))
        /\ Len(upcoming) = Min5(Cardinality(to_come))
        /\ Listed(recent) \subseteq finals
        /\ Listed(upcoming) \subseteq to_come
        /\ \A i, j \in 1..Len(recent) : i < j => C12_Before(recent[j], recent[i])
        /\ \A i, j \in 1..Len(upcoming) : i < j => C12_Before(upcoming[i], upcoming[j])
        /\ \A p \in Listed(recent) : \A v \in finals \ Listed(recent) : C12_Before(v, p)
        /\ \A p \in Listed(upcoming) : \A v \in to_come \ Listed(upcoming) : C12_Before(p, v)

\* six games to come for the Lakers, one of them postponed without a time:
\* the postponed game is listed first and a dated game is left out
C12_Witness ==
    /\ Served("schedule")
    /\ resp.path = "try"
    /\ resp.arg = << LAL_ID >>
    /\ Cardinality(C4_ToCome(LAL_ID, resp.at)) = 6
    /\ Len(resp.body.v.upcoming.v) = 5
    /\ resp.body.v.upcoming.v[1].GAME_DATETIME = [k |-> "none"]
    /\ \E v \in C4_ToCome(LAL_ID, resp.at) :
          /\ feed[v].gameId \notin Ids(resp.body.v.upcoming)
          /\ C4_Timed(feed[v])

\* C13: in a schedule response built from the feed, every entry of `recent`
\* has PTS equal to the requested team's score in the fetched game (the home
\* score when the requested team is the home team, the away score otherwise),
\* OPP_PTS equal to the other team's score, and WL 'W' exactly when
\* PTS > OPP_PTS and 'L' otherwise; every entry of `upcoming` has WL null.
C13_WinLossFromScores ==
    (Served("schedule") /\ resp.path = "try") =>
        LET team_id == resp.arg[1]
            recent == resp.body.v.recent.v
            upcoming == resp.body.v.upcoming.v
        IN
        /\ \A i \in 1..Len(recent) :
              LET g == C12_Game(recent[i])
                  mine == IF g.homeTeam.teamId = team_id THEN g.homeTeam ELSE g.awayTeam
                  other == IF g.homeTeam.teamId = team_id THEN g.awayTeam ELSE g.homeTeam
              IN
              /\ mine.teamId = team_id
              /\ recent[i].PTS = mine.score
              /\ recent[i].OPP_PTS = other.score
              /\ recent[i].WL = IF recent[i].PTS > recent[i].OPP_PTS THEN Str("W") ELSE Str("L")
        /\ \A i \in 1..Len(upcoming) :
              /\ upcoming[i].WL = [k |-> "none"]
              /\ "PTS" \notin DOMAIN upcoming[i]

\* a response for the Celtics: the away team of a game they lost 99 to 101,
\* the home team of a game they won, and a game to come
C13_Witness ==
    /\ Served("schedule")
    /\ resp.path = "try"
    /\ resp.arg = << BOS_ID >>
    /\ \E i \in 1..Len(resp.body.v.recent.v) :
          LET e == resp.body.v.recent.v[i] IN
          /\ C12_Game(e).awayTeam.teamId = BOS_ID
          /\ e.PTS = 99 /\ e.OPP_PTS = 101 /\ e.WL = Str("L")
    /\ \E i \in 1..Len(resp.body.v.recent.v) :
          LET e == resp.body.v.recent.v[i] IN
          /\ C12_Game(e).homeTeam.teamId = BOS_ID
          /\ e.WL = Str("W")
    /\ Len(resp.body.v.upcoming.v) > 0

\* the tricode of a team
C14_Tricode(team_id) ==
    CASE team_id = LAL_ID -> "LAL"
      [] team_id = GSW_ID -> "GSW"
      [] team_id = BOS_ID -> "BOS"

\* what the team of the last request would be answered from an empty cache,
\* given the same league schedule and clock
C14_FromEmptyCache ==
    api_team_schedule(<< >>, resp.at, resp.arg[1],
                      [outcome |-> "ok", data |-> FeedDoc]).body

\* C14 (as stated): every schedule response, whichever team's request stored
\* the 'full_schedule_v2' entry it was built from, lists only games in which
\* the requested team is the home or the away team, and equals the response
\* the team would get from an empty cache given the same league schedule and
\* clock.
C14_AsStated ==
    Served("schedule") =>
        /\ \A list \in {resp.body.v.upcoming.v, resp.body.v.recent.v} :
              \A i \in 1..Len(list) :
                  C14_Tricode(resp.arg[1]) \in {list[i].MATCHUP.home, list[i].MATCHUP.away}
        /\ resp.body = C14_FromEmptyCache

\* C14 (amended): every schedule response equals the response the team would
\* get from an empty cache given the same league schedule and clock, whichever
\* team's request stored the 'full_schedule_v2' entry; a response built from
\* the schedule lists only games in which the requested team is the home or
\* the away team; when processing the schedule raises for the team, the
\* response is the literal sample, whose games are games of the Lakers, for
\* every team.
C14_NoCrossTeamCollision ==
    Served("schedule") =>
        /\ resp.body = C14_FromEmptyCache
        /\ resp.path = "try" =>
              \A list \in {resp.body.v.upcoming.v, resp.body.v.recent.v} :
                  \A i \in 1..Len(list) :
                      /\ resp.arg[1] \in {C12_Game(list[i]).homeTeam.teamId,
                                          C12_Game(list[i]).awayTeam.teamId}
                      /\ C14_Tricode(resp.arg[1])
                            \in {list[i].MATCHUP.home, list[i].MATCHUP.away}
        /\ resp.path # "try" => resp.body = SAMPLE_SCHEDULE

\* the second request of a sequence, for the Celtics, is answered from the
\* entry the first request stored; the feed also has a game of two other teams
\* and the response lists a game
C14_Witness ==
    /\ Served("schedule")
    /\ served = 2
    /\ resp.hit
    /\ resp.calls = << >>
    /\ resp.path = "try"
    /\ resp.arg = << BOS_ID >>
    /\ Len(resp.body.v.recent.v) > 0
    /\ \E i \in 1..Len(feed) : i \notin MyGames(BOS_ID)

\* the games of the team that are not Final and have no parseable timestamp
C17_Untimed(team_id) ==
    {i \in MyGames(team_id) : ~C4_Final(feed[i]) /\ ~C4_Timed(feed[i])}

\* the game ids of a list of games
C17_GameIds(games) == {games[i].gameId : i \in 1..Len(games)}

\* C17: in a schedule response built from the feed, no game of the requested
\* team is in both `upcoming` and `recent` (nor classified as both); a game
\* whose status is not "Final" and whose parseable timestamp is not in the
\* future is classified as neither and is in neither list; a game that is not
\* Final and has no parseable timestamp is classified as upcoming, and listed
\* in `upcoming` when the team has at most 5 such games.
C17_AtMostOneList ==
    (Served("schedule") /\ resp.path = "try") =>
        LET team_id == resp.arg[1]
            recent == Ids(resp.body.v.recent)
            upcoming == Ids(resp.body.v.upcoming)
            up_raw == C17_GameIds(upcoming_games_raw(FeedDoc, team_id, resp.at))
            rec_raw == C17_GameIds(recent_games_raw(FeedDoc, team_id, resp.at))
        IN
        /\ up_raw \cap rec_raw = {}
        /\ upcoming \subseteq up_raw
        /\ recent \subseteq rec_raw
        /\ \A i \in MyGames(team_id) :
              /\ ~(feed[i].gameId \in recent /\ feed[i].gameId \in upcoming)
              /\ (~C4_Final(feed[i]) /\ C4_Timed(feed[i]) /\ feed[i].gameEt.at <= resp.at) =>
                    /\ feed[i].gameId \notin up_raw \cup rec_raw
                    /\ feed[i].gameId \notin upcoming \cup recent
              /\ (~C4_Final(feed[i]) /\ ~C4_Timed(feed[i])) =>
                    /\ feed[i].gameId \in up_raw
                    /\ feed[i].gameId \notin rec_raw
                    /\ Cardinality(C17_Untimed(team_id)) <= 5 => feed[i].gameId \in upcoming

\* the Lakers have a game in progress, which is in neither list, and a
\* postponed game without a time, which is in `upcoming`
C17_Witness ==
    /\ Served("schedule")
    /\ resp.path = "try"
    /\ resp.arg = << LAL_ID >>
    /\ \E i \in MyGames(LAL_ID) :
          /\ feed[i].gameStatusText = "Q3 5:00"
          /\ feed[i].gameEt.at < resp.at
          /\ feed[i].gameId \notin Ids(resp.body.v.recent) \cup Ids(resp.body.v.upcoming)
    /\ \E i \in C17_Untimed(LAL_ID) : feed[i].gameId \in Ids(resp.body.v.upcoming)

\* C15 (as stated): for every table, in the records the normalizer returns
\* every field of a numeric column whose input value is NaN, +Infinity,
\* -Infinity or missing is 0, every field of a text column whose input value
\* is missing is the empty string, and no NaN or Infinity appears in any
\* record.
C15_NoNaNNoInfinity ==
    (resp.op = "safe_records_from_df" /\ ~resp.again /\ resp.arg # PyNone
        /\ resp.arg.t = "DataFrame") =>
        LET df == resp.arg
            records == resp.out
        IN
        /\ Len(df.rows) > 0 => Len(records) = Len(df.rows)
        /\ \A r \in 1..Len(records) :
              \A i \in FirstOccurrences(df.columns) :
                  LET col == df.columns[i]
                      in_cell == df.rows[r][i]
                  IN
                  /\ (col.dtype = "number" /\ in_cell.k \in {"nan", "inf", "-inf", "none"})
                        => records[r][col.name] = Num(0)
                  /\ (col.dtype = "object" /\ in_cell.k \in {"nan", "none"})
                        => records[r][col.name] = Str("")
        /\ \A r \in 1..Len(records) :
              \A n \in DOMAIN records[r] : records[r][n].k \notin {"nan", "inf", "-inf"}

\* C16: the normalizer applied to the list of records it returned, for a
\* table, a list of records, an empty table or None, returns that list
\* unchanged.
C16_Idempotent ==
    (resp.op = "safe_records_from_df" /\ resp.again) =>
        /\ resp.arg.t = "list"
        /\ Len(resp.out) = Len(resp.arg.v)
        /\ resp.out = resp.arg.v
        /\ resp.arg.v = safe_records_from_df(feed)

\* the records of a table of two rows with a NaN in its numeric column,
\* normalized a second time
C16_Witness ==
    /\ resp.op = "safe_records_from_df"
    /\ resp.again
    /\ feed # PyNone
    /\ feed.t = "DataFrame"
    /\ feed.columns = << Column("PTS", "number") >>
    /\ Len(feed.rows) = 2
    /\ feed.rows[1][1] = NaN
    /\ resp.out[1].PTS = Num(0)
    /\ Len(resp.out) = 2

\* the player is ACTIVE and his minutes value is non-empty and not '00:00'
C18_Listed(p) ==
    p.status = "ACTIVE" /\ p.statistics.minutes # "" /\ p.statistics.minutes # "00:00"

====
